---- MODULE Spec2Model ----
(***************************************************************************)
(* State machine of the MeshSwarm node core (MeshSwarm/src/MeshSwarm.cpp): *)
(* the replicated state store with its conflict resolution, the watcher    *)
(* dispatch, the STATE_SET / STATE_SYNC handlers, the coordinator          *)
(* election, the peer registry with its heartbeats, the periodic update()  *)
(* and the telemetry relay; and of the screen Navigator and the boot       *)
(* button handling of the touch169 node (firmware/nodes/touch169).         *)
(*                                                                         *)
(* The specifications share the definitions:                               *)
(*   Spec      one node, driven by application calls and inbound messages  *)
(*   SpecSeen  the same node, recording the versions it has observed       *)
(*   SpecPair  two replicas fed the same messages in arbitrary orders      *)
(*   SpecConc  two nodes writing the same key concurrently                 *)
(*   SpecElect one node electing the coordinator as the topology changes   *)
(*   SpecTopo  one node receiving the transport's connection events        *)
(*   SpecGroup a group of nodes, each electing from its own node list      *)
(*   SpecWatch one node with several watchers per key, and getState        *)
(*   SpecSync  a full sync against the same entries as single updates      *)
(*   SpecFull  one node running update() as time passes: the full syncs    *)
(*   SpecPeers one node's peer registry as time passes                     *)
(*   SpecTele  one node, ordinary or gateway, sending and relaying         *)
(*             telemetry                                                   *)
(*   SpecRelay a gateway posting to a server that may refuse               *)
(*   SpecRecv  one node handed messages of every type, garbled ones too    *)
(*   SpecTick  update() draining the transport before its timers           *)
(*   SpecTimer the three timers of update() against the clock              *)
(*   SpecTwin  two runs of one election that differ in the peer registry   *)
(*   SpecLive  the alive flag of the peers as time passes                  *)
(*   SpecKeys  the keys of the store under every operation                 *)
(*   SpecNav   the screen Navigator of the touch169 node                   *)
(*   SpecHeal  two nodes that stop writing and keep exchanging syncs       *)
(*   SpecProv  three nodes, a network that duplicates, reorders, relays    *)
(*   SpecSilent one node with watchers and telemetry receiving state       *)
(*   SpecStar  one node whose state keys include the key named "*"         *)
(*   SpecButton the boot button of the touch169 node, as update() polls it *)
(***************************************************************************)
EXTENDS Integers, Sequences, FiniteSets, TLC

VARIABLES
    myId,             \* uint32_t myId (mesh.getNodeId())
    sharedState,      \* std::map<String, StateEntry>: key -> [value, version, origin]
    stateWatchers,    \* std::map<String, std::vector<StateCallback>>
    myRole,           \* "COORD" | "PEER"
    coordinatorId,    \* uint32_t coordinatorId
    nodeList,         \* mesh.getNodeList(): the ids the transport sees
    telemetryEnabled, \* bool
    gatewayMode,      \* bool
    lastOp,           \* the operation the last step ran, with its arguments
    pre,              \* sharedState as it was when lastOp started
    ret,              \* what lastOp returned (setState), FALSE otherwise
    fired,            \* watcher invocations made by lastOp, in order
    sent,             \* mesh.sendBroadcast calls made by lastOp, in order
    http,             \* HTTP POSTs made by lastOp, in order
    telemetryUrl,     \* String telemetryUrl ("" until setTelemetryServer)
    wifiConnected,    \* WiFi.status() == WL_CONNECTED
    httpCode,         \* int httpCode = http.POST(payload): what the server answers
    observed,         \* history kept by SpecSeen (per key: greatest (version,
                      \* -origin) received or written), by SpecTele (times
                      \* of the state-triggered telemetry sends), by SpecRecv
                      \* (the message onReceive was given) and by SpecTimer
                      \* (when the timers of update() fired)
    repeats,          \* how many times in a row lastOp's message was redelivered
    peers,            \* std::map<uint32_t, Peer>: id -> [id, name, role, lastSeen, alive]
    now,              \* millis()
    lastHeartbeat,    \* unsigned long lastHeartbeat
    lastStateSync,    \* unsigned long lastStateSync
    lastTelemetryPush, \* unsigned long lastTelemetryPush
    replica,          \* multi-node specifications: node -> that node's state
    delivered,        \* SpecPair / SpecConc: node -> set of messages handled
    scenario,         \* SpecPair / SpecConc: the inputs fixed at the start
    net,              \* SpecConc: the STATE_SET messages broadcast so far;
                      \* SpecTick: the messages the transport holds for the
                      \* node until its next mesh.update()
    nav,              \* SpecNav: the Navigator of the touch169 node:
                      \* [_current, _previous, _changed, _transitionTime]
    boot              \* SpecButton: the boot button of the touch169 node:
                      \* the pin level and the InputManager's _bootPressTime,
                      \* _bootWasPressed, _bootLongFired, _bootShortPending
                      \* and the two callbacks registered

vars == <<myId, sharedState, stateWatchers, myRole, coordinatorId, nodeList,
          telemetryEnabled, gatewayMode, telemetryUrl, wifiConnected,
          httpCode,
          lastOp, pre, ret, fired, sent, http,
          observed, repeats, peers, now, lastHeartbeat, lastStateSync,
          lastTelemetryPush, replica, delivered, scenario, net, nav, boot>>

\* the peer registry, the clock and the timers of update()
timeVars == <<peers, now, lastHeartbeat, lastStateSync, lastTelemetryPush>>

nodeVars == <<myId, sharedState, stateWatchers, myRole, coordinatorId,
              nodeList,
              telemetryEnabled, gatewayMode, telemetryUrl, wifiConnected,
              httpCode,
              lastOp, pre, ret, fired, sent, http, observed, repeats,
              timeVars>>

pairVars == <<replica, delivered, scenario, net, nav, boot>>

----------------------------------------------------------------------------
(* Bounds of the model *)

\* greatest small version number carried by generated messages
MaxVer == 1
\* greatest node id of the modelled mesh
MaxId == 2
\* callbacks registered through watchState, over all keys
MaxWatchers == 1
\* entries of a generated STATE_SYNC array
MaxSync == 2
\* consecutive duplicate deliveries of one message
MaxRepeat == 1

(* Program constants *)

\* StateEntry::version is a uint32_t. It is kept as two 16-bit halves,
\* [hi, lo], so that the arithmetic keeps its 32-bit width: HalfMax is the
\* greatest value of a half.
HalfMax == 65535

U32(hi, lo) == [hi |-> hi, lo |-> lo]
\* a small number as a uint32_t
Ver(n) == U32(0, n)
UINT32_MAX == U32(HalfMax, HalfMax)

\* a < b and a <= b on uint32_t
VerLt(a, b) == a.hi < b.hi \/ (a.hi = b.hi /\ a.lo < b.lo)
VerLeq(a, b) == a = b \/ VerLt(a, b)

\* a + 1 on uint32_t: it wraps from UINT32_MAX to 0
VerInc(a) ==
    IF a.lo < HalfMax THEN U32(a.hi, a.lo + 1)
    ELSE IF a.hi < HalfMax THEN U32(a.hi + 1, 0)
    ELSE U32(0, 0)

\* b is the number a + 1
IsSuccessor(a, b) ==
    \/ a.lo < HalfMax /\ b = U32(a.hi, a.lo + 1)
    \/ a.lo = HalfMax /\ a.hi < HalfMax /\ b = U32(a.hi + 1, 0)


\* a JSON field that is missing from the payload
Absent == 0 - 1

NodeIds == 1..MaxId
Keys == {"led"}
\* "" is also what data["k"] | "" yields for a missing key
MsgKeys == Keys \cup {""}
Values == {"", "0", "1"}
Versions == {Ver(n) : n \in 0..MaxVer} \cup {UINT32_MAX}
Origins == NodeIds \cup {Absent}

\* the payload of a STATE_SET, and an element of a STATE_SYNC array
StateMsgs == [k : MsgKeys, v : Values, ver : Versions, org : Origins]

----------------------------------------------------------------------------
(* The state store: MeshSwarm.cpp, STATE MANAGEMENT *)

\* an assignment that also erases the other entries whose value is empty
PutMut(st, key, entry) ==
    [x \in {k \in DOMAIN st : st[k].value # ""} \cup {key} |->
         IF x = key THEN entry ELSE st[x]]

\* sharedState[key] = entry
Put(st, key, entry) ==
    [x \in (DOMAIN st) \cup {key} |-> IF x = key THEN entry ELSE st[x]]

\* StateEntry without its diagnostic timestamp
Entry(value, version, origin) ==
    [value |-> value, version |-> version, origin |-> origin]

\* uint32_t newVersion = sharedState[key].version + 1 (1 for a new key)
NewVersion(st, key) ==
    IF key \in DOMAIN st THEN VerInc(st[key].version) ELSE Ver(1)

\* String oldValue = ""; overwritten when the key has an entry
OldValue(st, key) ==
    IF key \in DOMAIN st THEN st[key].value ELSE ""

\* setState whose early return takes an entry of version 0 for a missing one
UnchangedMut(st, key, value) ==
    key \in DOMAIN st /\ st[key].value = value /\ st[key].version # Ver(0)

\* setState's early return: the entry exists and already holds the value
Unchanged(st, key, value) ==
    key \in DOMAIN st /\ st[key].value = value

\* handleStateSet's shouldUpdate
ShouldUpdate(st, key, version, origin) ==
    IF key \notin DOMAIN st
    THEN TRUE
    ELSE \/ VerLt(st[key].version, version)
         \/ version = st[key].version /\ origin < st[key].origin

\* handleStateSet's condition for storing the received entry
Accepts(st, key, value, version, origin) ==
    ShouldUpdate(st, key, version, origin) /\ OldValue(st, key) # value

\* the origin taken from the sender, whatever the message carries
OriginOfMut(from, data) == from

\* uint32_t origin = data["org"] | from
OriginOf(from, data) ==
    IF data.org = Absent THEN from ELSE data.org

\* the STATE_SET payload broadcastState builds from the stored entry
StateSetMsg(st, key) ==
    [t |-> "STATE_SET", k |-> key, v |-> st[key].value,
     ver |-> st[key].version, org |-> st[key].origin]

\* the state object of a telemetry snapshot: key -> value
Snapshot(st) ==
    [x \in DOMAIN st |-> st[x].value]

\* a node while one of its handlers runs
Ctx(id, st, watchers, tele, gw, url, wifi) ==
    [id |-> id, st |-> st, watchers |-> watchers, tele |-> tele, gw |-> gw,
     url |-> url, wifi |-> wifi,
     fired |-> <<>>, sent |-> <<>>, http |-> <<>>]

\* broadcastState(key)
BroadcastState(c, key) ==
    IF key \notin DOMAIN c.st
    THEN c
    ELSE [c EXCEPT !.sent = Append(@, StateSetMsg(c.st, key))]

\* sendTelemetryToGateway()
SendTelemetryToGateway(c) ==
    [c EXCEPT !.sent = Append(@, [t |-> "TELEMETRY", state |-> Snapshot(c.st)])]

\* String(n, HEX): the digits of n in base 16, most significant first
HexDigits ==
    <<"0", "1", "2", "3", "4", "5", "6", "7",
      "8", "9", "a", "b", "c", "d", "e", "f">>

RECURSIVE Hex(_)
Hex(n) ==
    IF n < 16
    THEN <<HexDigits[n + 1]>>
    ELSE Append(Hex(n \div 16), HexDigits[(n % 16) + 1])

\* telemetryUrl + "/api/v1/nodes/" + String(nodeId, HEX) + "/telemetry",
\* as the sequence of its parts
Endpoint(url, nodeId) ==
    <<url, "/api/v1/nodes/", Hex(nodeId), "/telemetry">>

\* pushTelemetry without the test of the WiFi connection
PushTelemetryMut(c) ==
    IF ~c.tele \/ c.url = ""
    THEN c
    ELSE [c EXCEPT !.http =
              Append(@, [url |-> Endpoint(c.url, c.id),
                         payload |-> [state |-> Snapshot(c.st)]])]

\* pushTelemetry()
PushTelemetry(c) ==
    IF ~c.tele \/ c.url = ""
    THEN c
    ELSE IF ~c.wifi
         THEN c
         ELSE [c EXCEPT !.http =
                   Append(@, [url |-> Endpoint(c.url, c.id),
                              payload |-> [state |-> Snapshot(c.st)]])]

\* the block without the test of gatewayMode
StateChangeTelemetryMut(c) ==
    IF c.tele
    THEN SendTelemetryToGateway(c)
    ELSE c

\* setState's "push telemetry on state change" block
StateChangeTelemetry(c) ==
    IF c.tele
    THEN IF c.gw THEN PushTelemetry(c) ELSE SendTelemetryToGateway(c)
    ELSE c

RECURSIVE SetStateR(_, _, _)
RECURSIVE RunCallbacks(_, _, _, _, _, _)

\* what the store holds for key when a callback is entered
StoredAt(st, key) ==
    [k \in DOMAIN st \cap {key} |-> st[k]]

\* cb(key, value, oldValue) for the i-th callback registered under wkey
Invoke(c, wkey, i, key, value, oldValue) ==
    LET cb == c.watchers[wkey][i]
        c1 == [c EXCEPT !.fired = Append(@, [w |-> wkey, i |-> i, key |-> key,
                                             value |-> value,
                                             oldValue |-> oldValue,
                                             stored |-> StoredAt(c.st, key)])]
    IN  IF cb.act = "set" THEN SetStateR(c1, cb.k, cb.v).c ELSE c1

\* for (auto& cb : stateWatchers[wkey]) cb(key, value, oldValue);
RunCallbacks(c, wkey, i, key, value, oldValue) ==
    IF i > Len(c.watchers[wkey])
    THEN c
    ELSE RunCallbacks(Invoke(c, wkey, i, key, value, oldValue),
                      wkey, i + 1, key, value, oldValue)

\* triggerWatchers with the wildcard callbacks dispatched first
TriggerWatchersMut(c, key, value, oldValue) ==
    LET c1 == IF "*" \in DOMAIN c.watchers
              THEN RunCallbacks(c, "*", 1, key, value, oldValue)
              ELSE c
    IN  IF key \in DOMAIN c1.watchers
        THEN RunCallbacks(c1, key, 1, key, value, oldValue)
        ELSE c1

\* triggerWatchers(key, value, oldValue)
TriggerWatchers(c, key, value, oldValue) ==
    LET c1 == IF key \in DOMAIN c.watchers
              THEN RunCallbacks(c, key, 1, key, value, oldValue)
              ELSE c
    IN  IF "*" \in DOMAIN c1.watchers
        THEN RunCallbacks(c1, "*", 1, key, value, oldValue)
        ELSE c1

\* setState that sends its telemetry without the test of telemetryEnabled
SetStateRMut(c, key, value) ==
    IF Unchanged(c.st, key, value)
    THEN [c |-> c, ret |-> FALSE]
    ELSE LET oldValue == OldValue(c.st, key)
             entry == Entry(value, NewVersion(c.st, key), c.id)
             c1 == [c EXCEPT !.st = Put(c.st, key, entry)]
             c2 == TriggerWatchers(c1, key, value, oldValue)
             c3 == BroadcastState(c2, key)
         IN  [c |-> SendTelemetryToGateway(c3), ret |-> TRUE]

\* bool setState(key, value): the node after the call, and what it returns
SetStateR(c, key, value) ==
    IF Unchanged(c.st, key, value)
    THEN [c |-> c, ret |-> FALSE]
    ELSE LET oldValue == OldValue(c.st, key)
             entry == Entry(value, NewVersion(c.st, key), c.id)
             c1 == [c EXCEPT !.st = Put(c.st, key, entry)]
             c2 == TriggerWatchers(c1, key, value, oldValue)
             c3 == BroadcastState(c2, key)
         IN  [c |-> StateChangeTelemetry(c3), ret |-> TRUE]

\* getState that reads sharedState[key] without the count() test
GetStateRMut(c, key, defaultVal) ==
    [c |-> [c EXCEPT !.st = IF key \in DOMAIN c.st
                            THEN c.st
                            ELSE Put(c.st, key, Entry("", Ver(0), 0))],
     ret |-> IF key \in DOMAIN c.st THEN c.st[key].value ELSE ""]

\* String getState(key, defaultVal): the node after the call, and the result
GetStateR(c, key, defaultVal) ==
    [c |-> c,
     ret |-> IF key \in DOMAIN c.st THEN c.st[key].value ELSE defaultVal]

\* handleStateSet that passes an accepted update on, as setState does
HandleStateSetMut(c, from, data) ==
    LET key == data.k
        value == data.v
        version == data.ver
        origin == OriginOf(from, data)
    IN  IF key = ""
        THEN c
        ELSE IF Accepts(c.st, key, value, version, origin)
             THEN BroadcastState(
                      TriggerWatchers(
                          [c EXCEPT !.st = Put(c.st, key,
                                               Entry(value, version, origin))],
                          key, value, OldValue(c.st, key)),
                      key)
             ELSE c

\* void handleStateSet(from, data)
HandleStateSet(c, from, data) ==
    LET key == data.k
        value == data.v
        version == data.ver
        origin == OriginOf(from, data)
    IN  IF key = ""
        THEN c
        ELSE IF Accepts(c.st, key, value, version, origin)
             THEN TriggerWatchers(
                      [c EXCEPT !.st = Put(c.st, key,
                                           Entry(value, version, origin))],
                      key, value, OldValue(c.st, key))
             ELSE c

\* handleStateSync that stops after the first element of the array
HandleStateSyncMut(c, from, arr) ==
    IF arr = <<>>
    THEN c
    ELSE HandleStateSet(c, from, Head(arr))

RECURSIVE HandleStateSync(_, _, _)
\* void handleStateSync(from, data): handleStateSet on every array element
HandleStateSync(c, from, arr) ==
    IF arr = <<>>
    THEN c
    ELSE HandleStateSync(HandleStateSet(c, from, Head(arr)), from, Tail(arr))

----------------------------------------------------------------------------
(* Coordinator election: MeshSwarm.cpp, COORDINATOR ELECTION *)

\* electCoordinator without the loop over the node list
LowestMut(lowest, ids) ==
    lowest

RECURSIVE Lowest(_, _)
\* uint32_t lowest = myId; for (auto &id : nodeList) if (id < lowest) lowest = id;
Lowest(lowest, ids) ==
    IF ids = {}
    THEN lowest
    ELSE LET id == CHOOSE x \in ids : TRUE
         IN  Lowest(IF id < lowest THEN id ELSE lowest, ids \ {id})

\* the role computed with <= in place of ==
RoleOfMut(lowest, id) ==
    IF lowest <= id THEN "COORD" ELSE "PEER"

\* myRole = (lowest == myId) ? "COORD" : "PEER"
RoleOf(lowest, id) ==
    IF lowest = id THEN "COORD" ELSE "PEER"

----------------------------------------------------------------------------
(* What the environment supplies *)

\* the callbacks an application registers: one that only displays or logs
\* the change (as every callback of the firmware images does), and one that
\* writes a state key from inside the callback
LogCb == [act |-> "log", k |-> "", v |-> ""]
SetCb(key, value) == [act |-> "set", k |-> key, v |-> value]
Callbacks == {LogCb} \cup {SetCb(k, "1") : k \in Keys}
WatchKeys == Keys \cup {"*"}

RECURSIVE CountWatchers(_, _)
CountWatchers(w, ks) ==
    IF ks = {}
    THEN 0
    ELSE LET k == CHOOSE x \in ks : TRUE
         IN  Len(w[k]) + CountWatchers(w, ks \ {k})

\* a callback that writes state is registered; a second one would make the
\* callbacks call each other without end
HasSetter(w) ==
    \E k \in DOMAIN w : \E i \in 1..Len(w[k]) : w[k][i].act = "set"

\* the inbound STATE_SET payloads: every combination of the fields for a
\* real key, and one payload whose key is missing
Inbound ==
    {m \in StateMsgs :
        m.k = "" => (m.v = "1" /\ m.ver = Ver(1) /\ m.org = Absent)}

\* the node a message comes from. handleStateSet reads it only when the
\* payload has no "org", so one sender stands for all when it has one
SendersOf(id, data) ==
    IF data.org = Absent
    THEN NodeIds \ {id}
    ELSE {CHOOSE x \in NodeIds \ {id} : TRUE}

\* the elements STATE_SYNC arrays are built from
SyncEntries ==
    {[k |-> "", v |-> "1", ver |-> Ver(1), org |-> Absent],
     [k |-> "led", v |-> "1", ver |-> Ver(1), org |-> 1],
     [k |-> "led", v |-> "0", ver |-> Ver(2), org |-> Absent]}

SyncArrays ==
    UNION {[1..n -> SyncEntries] : n \in 0..MaxSync}

----------------------------------------------------------------------------
(* Bookkeeping of the model: what a claim needs to know about a call *)

NoOp == [op |-> "loop"]
NoStore == <<>>

\* (version, -origin) of an entry, and its lexicographic order
Tuple(version, origin) == <<version, 0 - origin>>
TupleLeq(a, b) == VerLt(a[1], b[1]) \/ (a[1] = b[1] /\ a[2] <= b[2])
TupleMax(a, b) == IF TupleLeq(a, b) THEN b ELSE a

\* the greatest tuple seen for key so far, joined with a new one
Observe(obs, key, version, origin) ==
    IF key \in DOMAIN obs
    THEN [obs EXCEPT ![key] = TupleMax(@, Tuple(version, origin))]
    ELSE Put(obs, key, Tuple(version, origin))

RECURSIVE ObserveAll(_, _, _)
ObserveAll(obs, from, arr) ==
    IF arr = <<>>
    THEN obs
    ELSE ObserveAll(IF Head(arr).k = ""
                    THEN obs
                    ELSE Observe(obs, Head(arr).k, Head(arr).ver,
                                 OriginOf(from, Head(arr))),
                    from, Tail(arr))

----------------------------------------------------------------------------
(* The state after MeshSwarm::MeshSwarm(), but for myId *)

\* enum class Screen
Screens ==
    {"Clock", "Humidity", "HumiditySettings", "Temperature", "TempSettings",
     "Light", "LightSettings", "MotionLed", "MotionLedSettings", "Calendar",
     "DateSettings", "ClockDetails", "TimeSettings", "Alarm", "Stopwatch",
     "NavMenu", "Debug"}

\* Navigator::Navigator()
NavigatorNew ==
    [current |-> "Clock", previous |-> "Clock", changed |-> TRUE,
     transitionTime |-> 0]

\* InputManager::InputManager(touch, gesture), the button not pressed
InputManagerNew ==
    [pressed |-> FALSE, pressTime |-> 0, wasPressed |-> FALSE,
     longFired |-> FALSE, shortPending |-> FALSE,
     shortCallback |-> FALSE, longCallback |-> FALSE]

Constructed ==
    /\ nav = NavigatorNew
    /\ boot = InputManagerNew
    /\ sharedState = NoStore
    /\ stateWatchers = <<>>
    /\ myRole = "PEER"
    /\ coordinatorId = 0
    /\ nodeList = {}
    /\ telemetryEnabled = FALSE
    /\ gatewayMode = FALSE
    /\ telemetryUrl = ""
    /\ wifiConnected = FALSE
    /\ httpCode = 200
    /\ lastOp = NoOp
    /\ pre = NoStore
    /\ ret = FALSE
    /\ fired = <<>>
    /\ sent = <<>>
    /\ http = <<>>
    /\ observed = <<>>
    /\ repeats = 0
    /\ peers = <<>>
    /\ now = 0
    /\ lastHeartbeat = 0
    /\ lastStateSync = 0
    /\ lastTelemetryPush = 0

NoPair ==
    /\ replica = <<>>
    /\ delivered = <<>>
    /\ scenario = <<>>
    /\ net = {}

----------------------------------------------------------------------------
(* Spec: the state store of one node *)

electVars == <<myRole, coordinatorId, nodeList>>
configVars == <<myId, stateWatchers, telemetryEnabled, gatewayMode,
                telemetryUrl, wifiConnected, httpCode>>

\* begin(): myId = mesh.getNodeId()
Init ==
    /\ myId \in NodeIds
    /\ Constructed
    /\ NoPair

Here ==
    Ctx(myId, sharedState, stateWatchers, telemetryEnabled, gatewayMode,
        telemetryUrl, wifiConnected)

\* what a call leaves behind: the store, and the record of the call
Ran(op, c, r) ==
    /\ lastOp' = op
    /\ pre' = sharedState
    /\ sharedState' = c.st
    /\ ret' = r
    /\ fired' = c.fired
    /\ sent' = c.sent
    /\ http' = c.http

\* what a call that can reach setState leaves behind: every setState that
\* changed its key has broadcast a STATE_SET and, with telemetry enabled,
\* has set lastTelemetryPush = millis()
RanStore(op, c, r) ==
    /\ Ran(op, c, r)
    /\ lastTelemetryPush' =
           IF c.tele /\ \E i \in 1..Len(c.sent) : c.sent[i].t = "STATE_SET"
           THEN now
           ELSE lastTelemetryPush
    /\ UNCHANGED <<peers, now, lastHeartbeat, lastStateSync>>

\* the application calls setState(key, value) from loop()
SetState(key, value) ==
    /\ lastOp = NoOp
    /\ key \in DOMAIN sharedState => sharedState[key].version \in Versions
    /\ LET r == SetStateR(Here, key, value)
       IN  RanStore([op |-> "setState", key |-> key, value |-> value],
                    r.c, r.ret)
    /\ repeats' = 0
    /\ UNCHANGED <<configVars, electVars, pairVars>>

\* onReceive, case MSG_STATE_SET
RecvStateSet(from, data) ==
    /\ lastOp = NoOp
    /\ RanStore([op |-> "STATE_SET", from |-> from, data |-> data],
                HandleStateSet(Here, from, data), FALSE)
    /\ repeats' = 0
    /\ UNCHANGED <<configVars, electVars, pairVars>>

\* the transport delivers the message just handled once more
Redeliver ==
    /\ lastOp.op = "STATE_SET"
    /\ repeats < MaxRepeat
    /\ RanStore(lastOp, HandleStateSet(Here, lastOp.from, lastOp.data),
                FALSE)
    /\ repeats' = repeats + 1
    /\ UNCHANGED <<configVars, electVars, pairVars>>

\* onReceive, case MSG_STATE_SYNC
RecvStateSync(from, arr) ==
    /\ lastOp = NoOp
    /\ RanStore([op |-> "STATE_SYNC", from |-> from, arr |-> arr],
                HandleStateSync(Here, from, arr), FALSE)
    /\ repeats' = 0
    /\ UNCHANGED <<configVars, electVars, pairVars>>

\* the call returns to loop(): its record is dropped
Return ==
    /\ lastOp # NoOp
    /\ lastOp' = NoOp
    /\ pre' = NoStore
    /\ ret' = FALSE
    /\ fired' = <<>>
    /\ sent' = <<>>
    /\ http' = <<>>
    /\ repeats' = 0
    /\ UNCHANGED <<sharedState, configVars, electVars, pairVars, timeVars>>

\* the application calls watchState(key, callback), while fewer than max
\* callbacks are registered
WatchStateUpTo(max, key, cb) ==
    /\ lastOp = NoOp
    /\ CountWatchers(stateWatchers, DOMAIN stateWatchers) < max
    /\ cb.act = "set" => ~HasSetter(stateWatchers)
    /\ stateWatchers' =
           IF key \in DOMAIN stateWatchers
           THEN [stateWatchers EXCEPT ![key] = Append(@, cb)]
           ELSE Put(stateWatchers, key, <<cb>>)
    /\ UNCHANGED <<myId, telemetryEnabled, gatewayMode, telemetryUrl,
                   wifiConnected,
                   httpCode, sharedState, lastOp, pre, ret, fired, sent,
                   http, repeats, electVars, pairVars, timeVars>>

WatchState(key, cb) ==
    WatchStateUpTo(MaxWatchers, key, cb)

\* the application calls enableTelemetry(enable)
EnableTelemetry(enable) ==
    /\ lastOp = NoOp
    /\ telemetryEnabled' = enable
    /\ UNCHANGED <<myId, stateWatchers, gatewayMode, telemetryUrl,
                   wifiConnected,
                   httpCode, sharedState, lastOp, pre, ret, fired, sent,
                   http, repeats, electVars, pairVars, timeVars>>

\* the sender of the generated STATE_SYNC messages
SyncSender(id) == CHOOSE x \in NodeIds \ {id} : TRUE

Next ==
    \/ \E key \in Keys, value \in Values :
           SetState(key, value) /\ UNCHANGED observed
    \/ \E data \in Inbound : \E from \in SendersOf(myId, data) :
           RecvStateSet(from, data) /\ UNCHANGED observed
    \/ Redeliver /\ UNCHANGED observed
    \/ \E arr \in SyncArrays :
           RecvStateSync(SyncSender(myId), arr) /\ UNCHANGED observed
    \/ Return /\ UNCHANGED observed
    \/ \E key \in WatchKeys, cb \in Callbacks :
           WatchState(key, cb) /\ UNCHANGED observed
    \/ \E enable \in BOOLEAN : EnableTelemetry(enable) /\ UNCHANGED observed

Spec == Init /\ [][Next]_vars

----------------------------------------------------------------------------
(* SpecSeen: the same node, with the record of what it has observed *)

NextSeen ==
    \/ \E key \in Keys, value \in Values :
           /\ SetState(key, value)
           /\ observed' = IF ret'
                          THEN Observe(observed, key,
                                       NewVersion(sharedState, key), myId)
                          ELSE observed
    \/ \E data \in Inbound : \E from \in SendersOf(myId, data) :
           /\ RecvStateSet(from, data)
           /\ observed' = ObserveAll(observed, from, <<data>>)
    \/ \E arr \in SyncArrays :
           /\ RecvStateSync(SyncSender(myId), arr)
           /\ observed' = ObserveAll(observed, SyncSender(myId), arr)
    \/ Return /\ UNCHANGED observed

SpecSeen == Init /\ [][NextSeen]_vars

----------------------------------------------------------------------------
(* Claims about the state store of one node *)

\* the STATE_SET messages among the broadcasts of the last call
StateSetsSent == SelectSeq(sent, LAMBDA m : m.t = "STATE_SET")
\* the TELEMETRY messages among them
TelemetrySent == SelectSeq(sent, LAMBDA m : m.t = "TELEMETRY")

\* the entry the handled STATE_SET carries
Carried == Entry(lastOp.data.v, lastOp.data.ver,
                 OriginOf(lastOp.from, lastOp.data))

\* C2: for every key, the stored entry's (version, -origin) is at least the
\* (version, -origin) of every STATE_SET / STATE_SYNC entry received for the
\* key and of every local write made to it.
C2_StoredIsGreatest ==
    \A k \in DOMAIN observed :
        k \in DOMAIN sharedState =>
            TupleLeq(observed[k],
                     Tuple(sharedState[k].version, sharedState[k].origin))

\* C4: handling the same STATE_SET again, right after it was handled, leaves
\* the store as the first handling left it, and fires no watcher.
C4_Idempotence ==
    (lastOp.op = "STATE_SET" /\ repeats >= 1) =>
        (sharedState = pre /\ fired = <<>>)

\* C5: no call leaves a key with a version strictly lower than the one the
\* key had before the call.
C5_MonotonicVersion ==
    lastOp # NoOp =>
        \A k \in DOMAIN pre :
            /\ k \in DOMAIN sharedState
            /\ VerLeq(pre[k].version, sharedState[k].version)

\* C6: a STATE_SET with a non-empty key the node has no entry for is applied:
\* afterwards the entry for the key is exactly the one the message carries
\* (no callback having written the key in between).
C6_NewKeyApplied ==
    (/\ lastOp.op = "STATE_SET"
     /\ repeats = 0
     /\ lastOp.data.k # ""
     /\ lastOp.data.k \notin DOMAIN pre
     /\ sent = <<>>) =>
        (/\ lastOp.data.k \in DOMAIN sharedState
         /\ sharedState[lastOp.data.k] = Carried)

\* C7: a setState that changes the key returns true and broadcasts a STATE_SET
\* carrying the key, the value written, origin = own id and version = previous
\* version + 1 (1 for a new key); the broadcast of the call is the last
\* STATE_SET it sends, those of nested calls come before it.
C7_LocalWrite ==
    (/\ lastOp.op = "setState"
     /\ lastOp.key \in DOMAIN pre => pre[lastOp.key].value # lastOp.value) =>
        /\ ret
        /\ Len(StateSetsSent) >= 1
        /\ LET m == StateSetsSent[Len(StateSetsSent)]
           IN  /\ m.k = lastOp.key
               /\ m.v = lastOp.value
               /\ m.org = myId
               /\ IF lastOp.key \in DOMAIN pre
                  THEN IsSuccessor(pre[lastOp.key].version, m.ver)
                  ELSE m.ver = Ver(1)

\* C8: setState(key, v) on an entry that already holds v returns false,
\* leaves the store as it was, fires no watcher, broadcasts nothing and
\* sends no telemetry.
C8_NoOpSuppression ==
    (/\ lastOp.op = "setState"
     /\ lastOp.key \in DOMAIN pre
     /\ pre[lastOp.key].value = lastOp.value) =>
        /\ ~ret
        /\ sharedState = pre
        /\ fired = <<>>
        /\ sent = <<>>
        /\ http = <<>>

\* C8 witness: such a call has been made on a node that has telemetry
\* enabled and a watcher registered for the key.
C8_Witness ==
    /\ lastOp.op = "setState"
    /\ lastOp.key \in DOMAIN pre
    /\ pre[lastOp.key].value = lastOp.value
    /\ telemetryEnabled
    /\ lastOp.key \in DOMAIN stateWatchers

----------------------------------------------------------------------------
(* SpecPair: two replicas are handed the same STATE_SET messages, each in  *)
(* its own order and with its own duplicates                               *)

Replicas == {1, 2}

\* messages a scenario delivers
MaxMsgs == 2

\* a replica: a node that only receives (no callbacks, no telemetry)
Receiver(st) == Ctx(0, st, <<>>, FALSE, FALSE, "", FALSE)

\* the stores the replicas start from
PairStores ==
    {NoStore} \cup
    {Put(NoStore, k, Entry("1", Ver(0), MaxId)) : k \in Keys}

\* a message on the wire: the sender and the payload
WireMsgs ==
    UNION {{[from |-> f, data |-> d] : f \in SendersOf(0, d)} : d \in Inbound}

RECURSIVE UpTo(_, _)
\* the subsets of S with at most n elements
UpTo(S, n) ==
    IF n = 0
    THEN {{}}
    ELSE LET R == UpTo(S, n - 1)
         IN  R \cup {r \cup {m} : r \in R, m \in S}

InitPair ==
    /\ myId = 0
    /\ Constructed
    /\ \E st \in PairStores, msgs \in UpTo(WireMsgs, MaxMsgs) \ {{}} :
          /\ scenario = [store |-> st, msgs |-> msgs]
          /\ replica = [n \in Replicas |-> st]
    /\ delivered = [n \in Replicas |-> {}]
    /\ net = {}

\* onReceive, case MSG_STATE_SET, at replica n
Deliver(n, m) ==
    /\ replica' = [replica EXCEPT
                      ![n] = HandleStateSet(Receiver(@), m.from, m.data).st]
    /\ delivered' = [delivered EXCEPT ![n] = @ \cup {m}]
    /\ UNCHANGED <<scenario, net, nodeVars, nav, boot>>

NextPair ==
    \E n \in Replicas, m \in scenario.msgs : Deliver(n, m)

SpecPair == InitPair /\ [][NextPair]_vars

\* the entry a wire message carries
EntryOf(m) == Entry(m.data.v, m.data.ver, OriginOf(m.from, m.data))

\* C1: once both replicas have been handed every message of the collection,
\* in whatever order and however often, they hold the same store.
C1_Convergence ==
    (\A n \in Replicas : delivered[n] = scenario.msgs) =>
        replica[1] = replica[2]

\* C3: a replica that has handled exactly two updates of one key with equal
\* version and different origins, in either order, holds the entry of the
\* update with the lower origin (the entry it started with, if any, having a
\* lower version than the two).
C3_TieBreak ==
    \A n \in Replicas : \A u1, u2 \in scenario.msgs :
        (/\ delivered[n] = {u1, u2}
         /\ u1.data.k # ""
         /\ u1.data.k = u2.data.k
         /\ u1.data.ver = u2.data.ver
         /\ EntryOf(u1).origin < EntryOf(u2).origin
         /\ u1.data.k \in DOMAIN scenario.store =>
                VerLt(scenario.store[u1.data.k].version, u1.data.ver)) =>
            /\ u1.data.k \in DOMAIN replica[n]
            /\ replica[n][u1.data.k] = EntryOf(u1)

----------------------------------------------------------------------------
(* SpecConc: two nodes that hold the same entry write the key concurrently *)

\* a node of the scenario: no callbacks, no telemetry
Writer(id, st) == Ctx(id, st, <<>>, FALSE, FALSE, "", FALSE)

InitConc ==
    /\ myId = 0
    /\ Constructed
    /\ \E a \in NodeIds, b \in NodeIds, k \in Keys, v \in Values,
          n \in Versions, org \in NodeIds :
          /\ a < b
          /\ scenario = [a |-> a, b |-> b, k |-> k, n |-> n]
          /\ replica = [x \in {a, b} |-> Put(NoStore, k, Entry(v, n, org))]
    /\ delivered = [x \in DOMAIN replica |-> {}]
    /\ net = {}

\* node x has made its write
Wrote(x) == \E m \in net : m.org = x

\* node x calls setState(scenario.k, value), before it has received anything
Write(x, value) ==
    /\ ~Wrote(x)
    /\ delivered[x] = {}
    /\ \A m \in net : m.v # value
    /\ LET r == SetStateR(Writer(x, replica[x]), scenario.k, value)
       IN  /\ r.ret
           /\ replica' = [replica EXCEPT ![x] = r.c.st]
           /\ net' = net \cup {r.c.sent[i] : i \in 1..Len(r.c.sent)}
    /\ UNCHANGED <<delivered, scenario, nodeVars, nav, boot>>

\* node x receives the other node's STATE_SET (once more, possibly)
Receive(x, m) ==
    /\ \A y \in DOMAIN replica : Wrote(y)
    /\ m.org # x
    /\ replica' = [replica EXCEPT
                      ![x] = HandleStateSet(Writer(x, @), m.org,
                                 [k |-> m.k, v |-> m.v, ver |-> m.ver,
                                  org |-> m.org]).st]
    /\ delivered' = [delivered EXCEPT ![x] = @ \cup {m}]
    /\ UNCHANGED <<net, scenario, nodeVars, nav, boot>>

NextConc ==
    \/ \E x \in DOMAIN replica, value \in Values : Write(x, value)
    \/ \E x \in DOMAIN replica, m \in net : Receive(x, m)

SpecConc == InitConc /\ [][NextConc]_vars

\* C9: when both nodes have written and each has received the other's
\* STATE_SET, both hold the value node a wrote, with version n + 1 and
\* origin a.
C9_ConcurrentWrite ==
    (\A x \in DOMAIN replica : delivered[x] # {}) =>
        \A x \in DOMAIN replica :
            LET e == replica[x][scenario.k]
            IN  /\ \E m \in net : m.org = scenario.a /\ m.v = e.value
                /\ e.origin = scenario.a
                /\ IsSuccessor(scenario.n, e.version)

----------------------------------------------------------------------------
(* SpecElect: the election of one node *)

InitElect ==
    /\ myId \in NodeIds
    /\ Constructed
    /\ NoPair

\* the transport's view of the mesh changes
TopologyChange(ids) ==
    /\ ids # nodeList
    /\ nodeList' = ids
    /\ lastOp' = NoOp
    /\ pre' = NoStore
    /\ repeats' = 0
    /\ UNCHANGED <<myId, myRole, coordinatorId, sharedState, stateWatchers,
                   telemetryEnabled, gatewayMode, telemetryUrl, wifiConnected,
                   httpCode,
                   ret, fired, sent, http, observed, pairVars, timeVars>>

\* void electCoordinator()
ElectCoordinator ==
    /\ coordinatorId' = Lowest(myId, nodeList)
    /\ myRole' = RoleOf(Lowest(myId, nodeList), myId)

\* onChangedConnections(): electCoordinator()
OnChangedConnections ==
    /\ lastOp = NoOp \/ repeats < MaxRepeat
    /\ ElectCoordinator
    /\ lastOp' = [op |-> "onChangedConnections"]
    /\ pre' = <<myRole, coordinatorId>>
    /\ repeats' = IF lastOp = NoOp THEN 0 ELSE repeats + 1
    /\ UNCHANGED <<myId, nodeList, sharedState, stateWatchers,
                   telemetryEnabled, gatewayMode, telemetryUrl, wifiConnected,
                   httpCode,
                   ret, fired, sent, http, observed, pairVars, timeVars>>

\* the ids a transport can report: those of the nodes, and two above them
MeshIds == 1..(MaxId + 2)

NextElect ==
    \/ \E ids \in SUBSET MeshIds : TopologyChange(ids)
    \/ OnChangedConnections

SpecElect == InitElect /\ [][NextElect]_vars

\* C10: after electCoordinator(), coordinatorId is the minimum of the own id
\* and the visible ids, the role is COORD exactly when the own id is that
\* minimum and PEER otherwise, and a further call on the same node list
\* changes neither.
C10_Election ==
    lastOp.op = "onChangedConnections" =>
        /\ coordinatorId \in {myId} \cup nodeList
        /\ \A x \in {myId} \cup nodeList : coordinatorId <= x
        /\ myRole = IF myId = coordinatorId THEN "COORD" ELSE "PEER"
        /\ repeats >= 1 => <<myRole, coordinatorId>> = pre

\* C10 witness: the election has run twice on a list that holds a lower and
\* a higher id than the own one.
C10_Witness ==
    /\ lastOp.op = "onChangedConnections"
    /\ repeats >= 1
    /\ \E x \in nodeList : x < myId
    /\ \E x \in nodeList : x > myId
    /\ myRole = "PEER"

----------------------------------------------------------------------------
(* The peer registry, the heartbeat and the full sync: MeshSwarm.cpp,      *)
(* HEARTBEAT, MESH CALLBACKS                                               *)

\* struct Peer
Peer(id, name, role, lastSeen, alive) ==
    [id |-> id, name |-> name, role |-> role, lastSeen |-> lastSeen,
     alive |-> alive]

\* field | default on a JSON string field: {} stands for a missing field,
\* {s} for a field that holds s
OrElse(field, default) ==
    IF field = {} THEN default ELSE CHOOSE x \in field : TRUE

\* the HEARTBEAT payload sendHeartbeat builds (role and number of state keys;
\* uptime and heap are gauges no handler reads)
HeartbeatMsg(role, st) ==
    [t |-> "HEARTBEAT", role |-> role, states |-> Cardinality(DOMAIN st)]

\* sendHeartbeat()
SendHeartbeat(c, role) ==
    [c EXCEPT !.sent = Append(@, HeartbeatMsg(role, c.st))]

RECURSIVE StateArray(_, _)
\* for (auto& kv : sharedState) arr.add({k, v, ver, org})
StateArray(st, ks) ==
    IF ks = {}
    THEN <<>>
    ELSE LET k == CHOOSE x \in ks : TRUE
         IN  <<[k |-> k, v |-> st[k].value, ver |-> st[k].version,
                org |-> st[k].origin]>> \o StateArray(st, ks \ {k})

\* broadcastFullState whose loop leaves out the last entry
BroadcastFullStateMut(c) ==
    IF DOMAIN c.st = {}
    THEN c
    ELSE LET arr == StateArray(c.st, DOMAIN c.st)
         IN  [c EXCEPT !.sent = Append(@, [t |-> "STATE_SYNC",
                                           s |-> SubSeq(arr, 1, Len(arr) - 1)])]

\* broadcastFullState()
BroadcastFullState(c) ==
    IF DOMAIN c.st = {}
    THEN c
    ELSE [c EXCEPT !.sent = Append(@, [t |-> "STATE_SYNC",
                                       s |-> StateArray(c.st, DOMAIN c.st)])]

\* what a heartbeat can carry in "n" and in "role"
NameFields == {{}, {"node"}}
RoleFields == {{}, {"PEER"}, {"COORD"}}

\* onNewConnection(nodeId): sendHeartbeat(); broadcastFullState()
OnNewConnection(nodeId) ==
    /\ lastOp = NoOp
    /\ Ran([op |-> "onNewConnection", nodeId |-> nodeId, peers |-> peers],
           BroadcastFullState(SendHeartbeat(Here, myRole)), FALSE)
    /\ repeats' = 0
    /\ UNCHANGED <<configVars, electVars, pairVars, timeVars>>

\* onDroppedConnection erasing the peer
OnDroppedConnectionMut(nodeId) ==
    /\ lastOp = NoOp
    /\ peers' = [id \in DOMAIN peers \ {nodeId} |-> peers[id]]
    /\ ElectCoordinator
    /\ Ran([op |-> "onDroppedConnection", nodeId |-> nodeId, peers |-> peers,
            role |-> myRole],
           Here, FALSE)
    /\ repeats' = 0
    /\ UNCHANGED <<configVars, nodeList, pairVars, now, lastHeartbeat,
                   lastStateSync, lastTelemetryPush>>

\* onDroppedConnection(nodeId): the peer is marked not alive; electCoordinator()
OnDroppedConnection(nodeId) ==
    /\ lastOp = NoOp
    /\ peers' = IF nodeId \in DOMAIN peers
                THEN [peers EXCEPT ![nodeId].alive = FALSE]
                ELSE peers
    /\ ElectCoordinator
    /\ Ran([op |-> "onDroppedConnection", nodeId |-> nodeId, peers |-> peers,
            role |-> myRole],
           Here, FALSE)
    /\ repeats' = 0
    /\ UNCHANGED <<configVars, nodeList, pairVars, now, lastHeartbeat,
                   lastStateSync, lastTelemetryPush>>

\* the upsert that leaves the alive flag of a known peer as it is
HeartbeatUpsertMut(ps, from, name, role, t) ==
    Put(ps, from,
        Peer(from, OrElse(name, "???"), OrElse(role, "PEER"), t,
             IF from \in DOMAIN ps THEN ps[from].alive ELSE TRUE))

\* Peer &p = peers[from]; p.id = from; p.name = senderName;
\* p.role = data["role"] | "PEER"; p.lastSeen = millis(); p.alive = true
HeartbeatUpsert(ps, from, name, role, t) ==
    Put(ps, from,
        Peer(from, OrElse(name, "???"), OrElse(role, "PEER"), t, TRUE))

\* onReceive, case MSG_HEARTBEAT: upsert of peers[from]; electCoordinator()
RecvHeartbeat(from, name, role) ==
    /\ lastOp = NoOp
    /\ peers' = HeartbeatUpsert(peers, from, name, role, now)
    /\ ElectCoordinator
    /\ Ran([op |-> "HEARTBEAT", from |-> from, name |-> name, role |-> role,
            peers |-> peers],
           Here, FALSE)
    /\ repeats' = 0
    /\ UNCHANGED <<configVars, nodeList, pairVars, now, lastHeartbeat,
                   lastStateSync, lastTelemetryPush>>

----------------------------------------------------------------------------
(* SpecTopo: one node under topology events and heartbeats *)

NextTopo ==
    \/ \E ids \in SUBSET MeshIds : TopologyChange(ids)
    \/ \E nodeId \in MeshIds \ {myId} :
           OnNewConnection(nodeId) /\ UNCHANGED observed
    \/ \E nodeId \in MeshIds \ {myId} :
           OnDroppedConnection(nodeId) /\ UNCHANGED observed
    \/ OnChangedConnections
    \/ \E from \in NodeIds \ {myId}, name \in NameFields, role \in RoleFields :
           RecvHeartbeat(from, name, role) /\ UNCHANGED observed
    \/ Return /\ UNCHANGED observed

SpecTopo == InitElect /\ [][NextTopo]_vars

\* the handlers the election is said to run in
ElectingHandlers ==
    {"onNewConnection", "onDroppedConnection", "onChangedConnections",
     "HEARTBEAT"}

\* C11: when onNewConnection, onDroppedConnection, onChangedConnections or the
\* HEARTBEAT handler has returned, the role is COORD exactly when the own id
\* is the minimum of the own id and the transport's visible ids.
C11_ElectionOnEvents ==
    lastOp.op \in ElectingHandlers =>
        (myRole = "COORD" <=> \A x \in nodeList : myId <= x)

----------------------------------------------------------------------------
(* SpecGroup: the nodes of a mesh, each electing on its own view *)

\* the ids of the nodes a mesh is made of
GroupIds == 1..(MaxId + 1)

\* a node of the group: its election state, the node list its transport
\* reports, and whether it has run the election on that list
Member(role, coordinator, ids, elected) ==
    [myRole |-> role, coordinatorId |-> coordinator, nodeList |-> ids,
     elected |-> elected]

InitGroup ==
    /\ myId = 0
    /\ Constructed
    /\ \E g \in SUBSET GroupIds :
          /\ g # {}
          /\ scenario = [group |-> g]
          /\ replica = [n \in g |-> Member("PEER", 0, {}, FALSE)]
    /\ delivered = <<>>
    /\ net = {}

\* the transport of node n gains or loses the connection to node id
ViewChange(n, id) ==
    /\ replica' = [replica EXCEPT
                      ![n].nodeList = IF id \in @ THEN @ \ {id}
                                                  ELSE @ \cup {id},
                      ![n].elected = FALSE]
    /\ UNCHANGED <<delivered, scenario, net, nodeVars, nav, boot>>

\* node n runs electCoordinator()
Elect(n) ==
    /\ ~replica[n].elected
    /\ LET lowest == Lowest(n, replica[n].nodeList)
       IN  replica' = [replica EXCEPT
                          ![n] = Member(RoleOf(lowest, n), lowest,
                                        @.nodeList, TRUE)]
    /\ UNCHANGED <<delivered, scenario, net, nodeVars, nav, boot>>

NextGroup ==
    \/ \E n \in scenario.group : \E id \in scenario.group \ {n} :
           ViewChange(n, id)
    \/ \E n \in scenario.group : Elect(n)

SpecGroup == InitGroup /\ [][NextGroup]_vars

\* every node sees the whole group and has run the election on that view
Settled ==
    \A n \in scenario.group :
        /\ replica[n].nodeList \cup {n} = scenario.group
        /\ replica[n].elected

\* C12: when every node of the group sees the whole group and has run the
\* election on that view, exactly one node is COORD, it is the node with the
\* lowest id, and every node's coordinatorId is that id.
C12_Agreement ==
    Settled =>
        LET coords == {n \in scenario.group : replica[n].myRole = "COORD"}
        IN  /\ Cardinality(coords) = 1
            /\ \A c \in coords : \A n \in scenario.group : c <= n
            /\ \A n \in scenario.group : replica[n].coordinatorId \in coords

\* C12 witness: a settled group of at least three nodes.
C12_Witness ==
    /\ Cardinality(scenario.group) >= 3
    /\ Settled

----------------------------------------------------------------------------
(* SpecWatch: one node with several callbacks per key *)

\* callbacks registered through watchState in SpecWatch
MaxCbs == 3

\* the defaults a caller hands to getState
Defaults == {"", "none"}

\* the application calls getState(key, defaultVal)
GetState(key, defaultVal) ==
    /\ lastOp = NoOp
    /\ LET r == GetStateR(Here, key, defaultVal)
       IN  Ran([op |-> "getState", key |-> key, default |-> defaultVal,
                watchers |-> stateWatchers, peers |-> peers,
                role |-> myRole],
               r.c, r.ret)
    /\ repeats' = 0
    /\ UNCHANGED <<configVars, electVars, pairVars, timeVars>>

NextWatch ==
    \/ \E key \in WatchKeys, cb \in Callbacks :
           WatchStateUpTo(MaxCbs, key, cb) /\ UNCHANGED observed
    \/ \E key \in Keys, value \in Values :
           SetState(key, value) /\ UNCHANGED observed
    \/ \E data \in Inbound : \E from \in SendersOf(myId, data) :
           RecvStateSet(from, data) /\ UNCHANGED observed
    \/ \E key \in Keys, defaultVal \in Defaults :
           GetState(key, defaultVal) /\ UNCHANGED observed
    \/ Return /\ UNCHANGED observed

SpecWatch == Init /\ [][NextWatch]_vars

\* the key, the value and the entry of the change the last call asked for
AskedKey == IF lastOp.op = "setState" THEN lastOp.key ELSE lastOp.data.k
AskedValue == IF lastOp.op = "setState" THEN lastOp.value ELSE lastOp.data.v
AskedEntry ==
    IF lastOp.op = "setState"
    THEN Entry(lastOp.value, NewVersion(pre, lastOp.key), myId)
    ELSE Carried

\* the last call changed the key: a setState that returned true, a STATE_SET
\* that was applied
WasAccepted ==
    IF lastOp.op = "setState"
    THEN ret
    ELSE /\ lastOp.data.k # ""
         /\ Accepts(pre, lastOp.data.k, lastOp.data.v, lastOp.data.ver,
                    OriginOf(lastOp.from, lastOp.data))

\* the invocations made for the change itself (a callback that writes state
\* causes invocations of its own, for another value)
OwnFired ==
    SelectSeq(fired, LAMBDA r : /\ r.key = AskedKey
                                /\ r.value = AskedValue
                                /\ r.oldValue = OldValue(pre, AskedKey))

\* the callbacks registered under a watch key
Registered(wkey) ==
    IF wkey \in DOMAIN stateWatchers THEN Len(stateWatchers[wkey]) ELSE 0

\* C13: an accepted change invokes the callbacks of the key in registration
\* order, then those of "*" in registration order, each with (key, new
\* value, old value) and with the new entry stored before the first of them
\* runs; a no-op or rejected update invokes none.
C13_WatcherDispatch ==
    lastOp.op \in {"setState", "STATE_SET"} =>
        IF WasAccepted
        THEN /\ Len(OwnFired) = Registered(AskedKey) + Registered("*")
             /\ \A i \in 1..Len(OwnFired) :
                    /\ OwnFired[i].w = IF i <= Registered(AskedKey)
                                       THEN AskedKey ELSE "*"
                    /\ OwnFired[i].i = IF i <= Registered(AskedKey)
                                       THEN i ELSE i - Registered(AskedKey)
                    /\ AskedKey \in DOMAIN OwnFired[i].stored
             /\ Len(OwnFired) >= 1 =>
                    OwnFired[1].stored[AskedKey] = AskedEntry
        ELSE fired = <<>>

\* C13 witness: an applied STATE_SET has run two callbacks of its key and one
\* wildcard callback.
C13_Witness ==
    /\ lastOp.op = "STATE_SET"
    /\ WasAccepted
    /\ Registered(lastOp.data.k) = 2
    /\ Registered("*") = 1
    /\ Len(fired) >= 3

\* C18: getState(key, default) returns the stored value if the key has an
\* entry and the default otherwise, and leaves the state map, the watchers,
\* the peers and the role as they were.
C18_GetState ==
    lastOp.op = "getState" =>
        /\ ret = IF lastOp.key \in DOMAIN pre
                 THEN pre[lastOp.key].value
                 ELSE lastOp.default
        /\ sharedState = pre
        /\ stateWatchers = lastOp.watchers
        /\ peers = lastOp.peers
        /\ myRole = lastOp.role

\* C18 witness: getState was called for a key that has no entry, with a
\* non-empty default.
C18_Witness ==
    /\ lastOp.op = "getState"
    /\ lastOp.key \notin DOMAIN pre
    /\ lastOp.default # ""

----------------------------------------------------------------------------
(* SpecSync: one node is handed a STATE_SYNC, a second node in the same     *)
(* state is handed the elements of its array as STATE_SET messages          *)

\* the callbacks the two nodes have registered
WatcherMaps ==
    {<<>>} \cup {Put(<<>>, k, <<cb>>) : k \in WatchKeys, cb \in Callbacks}

InitSync ==
    /\ myId = 0
    /\ Constructed
    /\ \E id \in NodeIds, st \in PairStores, w \in WatcherMaps,
          arr \in SyncArrays :
          /\ scenario = [id |-> id, from |-> SyncSender(id), arr |-> arr]
          /\ replica = [n \in Replicas |->
                           Ctx(id, st, w, FALSE, FALSE, "", FALSE)]
    /\ delivered = [n \in Replicas |-> 0]
    /\ net = {}

\* onReceive, case MSG_STATE_SYNC, at the first node
SyncAtOnce ==
    /\ delivered[1] = 0
    /\ scenario.arr # <<>>
    /\ replica' = [replica EXCEPT
                      ![1] = HandleStateSync(@, scenario.from, scenario.arr)]
    /\ delivered' = [delivered EXCEPT ![1] = Len(scenario.arr)]
    /\ UNCHANGED <<scenario, net, nodeVars, nav, boot>>

\* onReceive, case MSG_STATE_SET, at the second node: the next element
SyncOneByOne ==
    /\ delivered[2] < Len(scenario.arr)
    /\ replica' = [replica EXCEPT
                      ![2] = HandleStateSet(@, scenario.from,
                                            scenario.arr[delivered[2] + 1])]
    /\ delivered' = [delivered EXCEPT ![2] = @ + 1]
    /\ UNCHANGED <<scenario, net, nodeVars, nav, boot>>

NextSync ==
    \/ SyncAtOnce
    \/ SyncOneByOne

SpecSync == InitSync /\ [][NextSync]_vars

\* both nodes have handled the whole array
SyncDone ==
    \A n \in Replicas : delivered[n] = Len(scenario.arr)

\* C14: the node that handled the STATE_SYNC and the node that handled its
\* elements one by one as STATE_SET messages hold the same store and have
\* made the same watcher invocations, in the same order.
C14_SyncIsSingleUpdates ==
    SyncDone =>
        /\ replica[1].st = replica[2].st
        /\ replica[1].fired = replica[2].fired

\* C14 witness: an array of two elements was handled both ways and both
\* elements reached a callback.
C14_Witness ==
    /\ SyncDone
    /\ Len(scenario.arr) >= 2
    /\ Len(replica[1].fired) >= 2

----------------------------------------------------------------------------
(* The clock and update(): MeshSwarm.cpp, MAIN LOOP *)

\* #define HEARTBEAT_INTERVAL, STATE_SYNC_INTERVAL, TELEMETRY_INTERVAL,
\* STATE_TELEMETRY_MIN_INTERVAL (ms), and the literal of pruneDeadPeers
HEARTBEAT_INTERVAL == 5000
STATE_SYNC_INTERVAL == 10000
TELEMETRY_INTERVAL == 30000
STATE_TELEMETRY_MIN_INTERVAL == 2000
PeerTimeout == 15000

\* the clock advances in steps of one heartbeat interval, MaxTicks times
MaxTicks == 6
Step == HEARTBEAT_INTERVAL

\* millis() moves on by d between two calls
Elapse(d) ==
    /\ lastOp = NoOp
    /\ now + d <= MaxTicks * Step
    /\ now' = now + d
    /\ UNCHANGED <<myId, sharedState, stateWatchers, electVars,
                   telemetryEnabled, gatewayMode, telemetryUrl, wifiConnected,
                   httpCode,
                   lastOp, pre, ret, fired, sent, http, repeats, peers,
                   lastHeartbeat, lastStateSync, lastTelemetryPush, pairVars>>

\* millis() moves on by one heartbeat interval
Tick == Elapse(Step)

\* pruneDeadPeers(): erase every peer with now - lastSeen > 15000
PruneDeadPeers(ps, t) ==
    [id \in {x \in DOMAIN ps : ~(t - ps[x].lastSeen > PeerTimeout)} |-> ps[id]]

\* int getPeerCount(): the peers marked alive
GetPeerCount(ps) ==
    Cardinality({id \in DOMAIN ps : ps[id].alive})

\* a node while update() runs: what its handlers have made of the store, the
\* peers, the role and the coordinator so far
Node(c, ps, role, coord) ==
    [c |-> c, peers |-> ps, role |-> role, coord |-> coord]

\* the timers of update() with > in place of >=
TimersMut(n, lh, ls, lt) ==
    LET heartbeat == now - lh > HEARTBEAT_INTERVAL
        sync == now - ls > STATE_SYNC_INTERVAL
        telemetry == /\ n.c.tele
                     /\ now - lt > TELEMETRY_INTERVAL
        c1 == IF heartbeat THEN SendHeartbeat(n.c, n.role) ELSE n.c
        c2 == IF sync THEN BroadcastFullState(c1) ELSE c1
        c3 == IF telemetry
              THEN IF n.c.gw
                   THEN PushTelemetry(c2)
                   ELSE SendTelemetryToGateway(c2)
              ELSE c2
    IN  [c |-> c3,
         peers |-> IF heartbeat THEN PruneDeadPeers(n.peers, now) ELSE n.peers,
         role |-> n.role, coord |-> n.coord,
         heartbeat |-> heartbeat, sync |-> sync, telemetry |-> telemetry]

\* update() after mesh.update(): the heartbeat, the full sync and the
\* telemetry timers, in the order of the code (the display refresh changes
\* nothing of the node). lh, ls and lt are lastHeartbeat, lastStateSync and
\* lastTelemetryPush.
Timers(n, lh, ls, lt) ==
    LET heartbeat == now - lh >= HEARTBEAT_INTERVAL
        sync == now - ls >= STATE_SYNC_INTERVAL
        telemetry == /\ n.c.tele
                     /\ now - lt >= TELEMETRY_INTERVAL
        c1 == IF heartbeat THEN SendHeartbeat(n.c, n.role) ELSE n.c
        c2 == IF sync THEN BroadcastFullState(c1) ELSE c1
        c3 == IF telemetry
              THEN IF n.c.gw
                   THEN PushTelemetry(c2)
                   ELSE SendTelemetryToGateway(c2)
              ELSE c2
    IN  [c |-> c3,
         peers |-> IF heartbeat THEN PruneDeadPeers(n.peers, now) ELSE n.peers,
         role |-> n.role, coord |-> n.coord,
         heartbeat |-> heartbeat, sync |-> sync, telemetry |-> telemetry]

\* update() while the transport has nothing to deliver
Update ==
    /\ lastOp = NoOp
    /\ LET r == Timers(Node(Here, peers, myRole, coordinatorId),
                       lastHeartbeat, lastStateSync, lastTelemetryPush)
       IN  /\ Ran([op |-> "update", at |-> now, peers |-> peers,
                   role |-> myRole,
                   lastHeartbeat |-> lastHeartbeat,
                   lastStateSync |-> lastStateSync,
                   lastTelemetryPush |-> lastTelemetryPush],
                  r.c, FALSE)
           /\ peers' = r.peers
           /\ lastHeartbeat' = IF r.heartbeat THEN now ELSE lastHeartbeat
           /\ lastStateSync' = IF r.sync THEN now ELSE lastStateSync
           /\ lastTelemetryPush' =
                  IF r.telemetry THEN now ELSE lastTelemetryPush
    /\ repeats' = 0
    /\ UNCHANGED <<configVars, electVars, pairVars, now>>

\* onReceive, case MSG_STATE_REQ: broadcastFullState()
RecvStateReq(from) ==
    /\ lastOp = NoOp
    /\ Ran([op |-> "STATE_REQ", from |-> from], BroadcastFullState(Here), FALSE)
    /\ repeats' = 0
    /\ UNCHANGED <<configVars, electVars, pairVars, timeVars>>

----------------------------------------------------------------------------
(* SpecFull: one node that receives state for two keys and sends full syncs *)

\* the keys and the STATE_SET payloads of SpecFull
FullKeys == Keys \cup {"fan"}
FullMsgs ==
    [k : FullKeys, v : {"0", "1"}, ver : {Ver(1), UINT32_MAX}, org : {Absent}]

NextFull ==
    \/ Tick /\ UNCHANGED observed
    \/ Update /\ UNCHANGED observed
    \/ \E from \in NodeIds \ {myId} : RecvStateReq(from) /\ UNCHANGED observed
    \/ \E nodeId \in NodeIds \ {myId} :
           OnNewConnection(nodeId) /\ UNCHANGED observed
    \/ \E data \in FullMsgs : \E from \in SendersOf(myId, data) :
           RecvStateSet(from, data) /\ UNCHANGED observed
    \/ Return /\ UNCHANGED observed

SpecFull == Init /\ [][NextFull]_vars

\* the last step was one of the three occasions of a full sync
FullSyncDue ==
    \/ lastOp.op \in {"STATE_REQ", "onNewConnection"}
    \/ /\ lastOp.op = "update"
       /\ lastOp.at - lastOp.lastStateSync >= STATE_SYNC_INTERVAL

\* the STATE_SYNC messages among the broadcasts of the last call
StateSyncsSent == SelectSeq(sent, LAMBDA m : m.t = "STATE_SYNC")

\* the last call broadcast one STATE_SYNC, whose array has one element per
\* stored entry, with the entry's value, version and origin
OneFullSync ==
    /\ Len(StateSyncsSent) = 1
    /\ LET arr == StateSyncsSent[1].s
       IN  /\ Len(arr) = Cardinality(DOMAIN sharedState)
           /\ \A k \in DOMAIN sharedState :
                  \E i \in 1..Len(arr) :
                      arr[i] = [k |-> k, v |-> sharedState[k].value,
                                ver |-> sharedState[k].version,
                                org |-> sharedState[k].origin]

\* C15 as stated: on a STATE_REQ, on onNewConnection and when the
\* STATE_SYNC_INTERVAL timer fires, the node broadcasts one STATE_SYNC that
\* lists every entry of its state map.
C15_FullSync ==
    FullSyncDue => OneFullSync

\* C15 amended: on the same occasions the node broadcasts one such STATE_SYNC
\* if its state map has an entry, and no STATE_SYNC if the map is empty.
C15_FullSyncNonEmpty ==
    FullSyncDue =>
        IF DOMAIN sharedState # {}
        THEN OneFullSync
        ELSE StateSyncsSent = <<>>

\* C15 witness: the timer fired on a node that holds two entries.
C15_Witness ==
    /\ lastOp.op = "update"
    /\ lastOp.at - lastOp.lastStateSync >= STATE_SYNC_INTERVAL
    /\ Cardinality(DOMAIN sharedState) = 2
    /\ Len(StateSyncsSent) = 1

----------------------------------------------------------------------------
(* SpecPeers: node 1 and the heartbeats of two other nodes, over time *)

\* the nodes node 1 hears heartbeats from
PeerIds == {2, 3}

InitPeers ==
    /\ myId = 1
    /\ Constructed
    /\ NoPair

NextPeers ==
    \/ Tick /\ UNCHANGED observed
    \/ Update /\ UNCHANGED observed
    \/ \E from \in PeerIds, name \in NameFields, role \in RoleFields \ {{"PEER"}} :
           RecvHeartbeat(from, name, role) /\ UNCHANGED observed
    \/ \E nodeId \in PeerIds : OnNewConnection(nodeId) /\ UNCHANGED observed
    \/ \E nodeId \in PeerIds : OnDroppedConnection(nodeId) /\ UNCHANGED observed
    \/ Return /\ UNCHANGED observed

SpecPeers == InitPeers /\ [][NextPeers]_vars

\* the HEARTBEAT messages among the broadcasts of the last call
HeartbeatsSent == SelectSeq(sent, LAMBDA m : m.t = "HEARTBEAT")

\* C16: when a call that broadcast a heartbeat has returned, the registry
\* holds no peer whose last heartbeat is more than the liveness timeout old.
C16_PruneAfterHeartbeat ==
    HeartbeatsSent # <<>> =>
        \A id \in DOMAIN peers : now - peers[id].lastSeen <= PeerTimeout

\* C17: when a HEARTBEAT from X has been handled, peers[X] holds id X, the
\* announced name and role, lastSeen = now and alive = true; every other
\* peer entry and the state map are as they were.
C17_HeartbeatUpsert ==
    lastOp.op = "HEARTBEAT" =>
        LET X == lastOp.from
        IN  /\ X \in DOMAIN peers
            /\ peers[X].id = X
            /\ lastOp.name # {} => peers[X].name \in lastOp.name
            /\ lastOp.role # {} => peers[X].role \in lastOp.role
            /\ peers[X].lastSeen = now
            /\ peers[X].alive
            /\ DOMAIN peers = DOMAIN lastOp.peers \cup {X}
            /\ \A id \in DOMAIN peers \ {X} : peers[id] = lastOp.peers[id]
            /\ sharedState = pre

\* C17 witness: the heartbeat came from a peer that onDroppedConnection had
\* marked not alive and that was last heard earlier, another peer being
\* registered.
C17_Witness ==
    /\ lastOp.op = "HEARTBEAT"
    /\ lastOp.from \in DOMAIN lastOp.peers
    /\ ~lastOp.peers[lastOp.from].alive
    /\ lastOp.peers[lastOp.from].lastSeen < now
    /\ DOMAIN lastOp.peers # {lastOp.from}

----------------------------------------------------------------------------
(* The telemetry relay: MeshSwarm.cpp, TELEMETRY, GATEWAY MODE *)

\* pushTelemetryForNode posting to the gateway's own endpoint
PushTelemetryForNodeMut(c, nodeId, data) ==
    IF ~c.wifi \/ c.url = ""
    THEN c
    ELSE [c EXCEPT !.http = Append(@, [url |-> Endpoint(c.url, c.id),
                                       payload |-> data])]

\* pushTelemetryForNode(nodeId, data)
PushTelemetryForNode(c, nodeId, data) ==
    IF ~c.wifi \/ c.url = ""
    THEN c
    ELSE [c EXCEPT !.http = Append(@, [url |-> Endpoint(c.url, nodeId),
                                       payload |-> data])]

\* handleTelemetry(from, data): pushTelemetryForNode(from, data)
HandleTelemetry(c, from, data) ==
    PushTelemetryForNode(c, from, data)

\* the MSG_TELEMETRY case without the gatewayMode test
OnTelemetryMut(c, from, data) ==
    HandleTelemetry(c, from, data)

\* onReceive, case MSG_TELEMETRY: if (gatewayMode) handleTelemetry(from, data)
OnTelemetry(c, from, data) ==
    IF c.gw THEN HandleTelemetry(c, from, data) ELSE c

\* the node receives a TELEMETRY message
RecvTelemetry(from, data) ==
    /\ lastOp = NoOp
    /\ Ran([op |-> "TELEMETRY", from |-> from, data |-> data,
            peers |-> peers, role |-> myRole],
           OnTelemetry(Here, from, data), FALSE)
    /\ repeats' = 0
    /\ UNCHANGED <<configVars, electVars, pairVars, timeVars>>

\* the application calls setGatewayMode(enable)
SetGatewayMode(enable) ==
    /\ lastOp = NoOp
    /\ gatewayMode' = enable
    /\ UNCHANGED <<myId, stateWatchers, telemetryEnabled, telemetryUrl,
                   wifiConnected,
                   httpCode, sharedState, lastOp, pre, ret, fired, sent,
                   http, repeats, electVars, pairVars, timeVars>>

\* the application calls setTelemetryServer(url)
SetTelemetryServer(url) ==
    /\ lastOp = NoOp
    /\ telemetryUrl' = url
    /\ UNCHANGED <<myId, stateWatchers, telemetryEnabled, gatewayMode,
                   wifiConnected,
                   httpCode, sharedState, lastOp, pre, ret, fired, sent,
                   http, repeats, electVars, pairVars, timeVars>>

\* WiFi.status() changes
WifiChange ==
    /\ lastOp = NoOp
    /\ wifiConnected' = ~wifiConnected
    /\ UNCHANGED <<myId, stateWatchers, telemetryEnabled, gatewayMode,
                   telemetryUrl, httpCode, sharedState, lastOp, pre, ret,
                   fired, sent, http, repeats, electVars, pairVars, timeVars>>

----------------------------------------------------------------------------
(* SpecTele: one node, ordinary or gateway, writing state over time *)

\* the servers an application configures, and the TELEMETRY payloads
Urls == {"", "http://server"}
TelemetryData == {[name |-> "node", state |-> <<>>]}

\* the times of the last two state-triggered telemetry sends, joined by a
\* send at time t
Pushed(times, t) ==
    IF Len(times) < 2 THEN Append(times, t) ELSE <<times[2], t>>

NextTele ==
    \/ \E enable \in BOOLEAN : EnableTelemetry(enable) /\ UNCHANGED observed
    \/ \E enable \in BOOLEAN : SetGatewayMode(enable) /\ UNCHANGED observed
    \/ \E url \in Urls : SetTelemetryServer(url) /\ UNCHANGED observed
    \/ WifiChange /\ UNCHANGED observed
    \/ Tick /\ UNCHANGED observed
    \/ \E key \in Keys, value \in Values :
           /\ SetState(key, value)
           /\ observed' = IF http' # <<>> \/ \E i \in 1..Len(sent') :
                                                sent'[i].t = "TELEMETRY"
                          THEN Pushed(observed, now)
                          ELSE observed
    \/ \E from \in NodeIds \ {myId}, data \in TelemetryData :
           RecvTelemetry(from, data) /\ UNCHANGED observed
    \/ Return /\ UNCHANGED observed

SpecTele == Init /\ [][NextTele]_vars

\* C19: two state-triggered telemetry sends (TELEMETRY broadcast on an
\* ordinary node, HTTP push on the gateway) that follow each other are at
\* least STATE_TELEMETRY_MIN_INTERVAL apart.
C19_TelemetryDebounce ==
    Len(observed) = 2 =>
        observed[2] - observed[1] >= STATE_TELEMETRY_MIN_INTERVAL

\* C20: a TELEMETRY message handled by a node that is not in gateway mode
\* causes no HTTP request and no broadcast, and leaves the state map, the
\* peers and the role as they were.
C20_TelemetryIgnored ==
    (lastOp.op = "TELEMETRY" /\ ~gatewayMode) =>
        /\ http = <<>>
        /\ sent = <<>>
        /\ sharedState = pre
        /\ peers = lastOp.peers
        /\ myRole = lastOp.role

\* C20 witness: such a node has its telemetry enabled, a server configured
\* and WiFi connected, and holds state.
C20_Witness ==
    /\ lastOp.op = "TELEMETRY"
    /\ ~gatewayMode
    /\ telemetryEnabled
    /\ telemetryUrl # ""
    /\ wifiConnected
    /\ sharedState # NoStore

----------------------------------------------------------------------------
(* SpecRelay: a node that pushes its own telemetry and relays the others' *)

\* what http.POST returns: 200 and 201 are the successes
HttpCodes == {200, 201, 500}

\* the telemetry server starts answering differently
ServerAnswers(code) ==
    /\ lastOp = NoOp
    /\ code # httpCode
    /\ httpCode' = code
    /\ UNCHANGED <<myId, stateWatchers, telemetryEnabled, gatewayMode,
                   telemetryUrl, wifiConnected, sharedState, lastOp, pre, ret,
                   fired, sent, http, repeats, electVars, pairVars, timeVars>>

\* processSerial, input == "push": if (telemetryEnabled) pushTelemetry()
SerialPush ==
    /\ lastOp = NoOp
    /\ Ran([op |-> "push", peers |-> peers, role |-> myRole],
           IF telemetryEnabled THEN PushTelemetry(Here) ELSE Here, FALSE)
    /\ repeats' = 0
    /\ UNCHANGED <<configVars, electVars, pairVars, timeVars>>

\* the nodes whose TELEMETRY reaches this one (26 is 1a in base 16), and
\* what they send
RelayIds == NodeIds \cup {26}
RelayData ==
    {[name |-> "node", role |-> "PEER", state |-> st] :
         st \in {<<>>, [led |-> "1"]}}

\* here the clock advances by half a telemetry interval at a time
LongStep == TELEMETRY_INTERVAL \div 2

\* the value of a sequence of hexadecimal digits
RECURSIVE HexValue(_)
HexValue(ds) ==
    IF ds = <<>>
    THEN 0
    ELSE 16 * HexValue(SubSeq(ds, 1, Len(ds) - 1))
         + (CHOOSE i \in 0..15 : HexDigits[i + 1] = ds[Len(ds)])

NextRelay ==
    \/ \E enable \in BOOLEAN : EnableTelemetry(enable) /\ UNCHANGED observed
    \/ \E enable \in BOOLEAN : SetGatewayMode(enable) /\ UNCHANGED observed
    \/ \E url \in Urls : SetTelemetryServer(url) /\ UNCHANGED observed
    \/ WifiChange /\ UNCHANGED observed
    \/ \E code \in HttpCodes : ServerAnswers(code) /\ UNCHANGED observed
    \/ Elapse(LongStep) /\ UNCHANGED observed
    \/ Update /\ UNCHANGED observed
    \/ \E key \in Keys, value \in Values :
           SetState(key, value) /\ UNCHANGED observed
    \/ \E from \in NodeIds \ {myId} :
           RecvHeartbeat(from, {"node"}, {"COORD"}) /\ UNCHANGED observed
    \/ \E from \in RelayIds \ {myId}, data \in RelayData :
           RecvTelemetry(from, data) /\ UNCHANGED observed
    \/ SerialPush /\ UNCHANGED observed
    \/ Return /\ UNCHANGED observed

SpecRelay == Init /\ [][NextRelay]_vars

\* C21: a gateway with WiFi connected and a server configured answers a
\* TELEMETRY message from node X with exactly one HTTP POST, to
\* {serverUrl}/api/v1/nodes/{X in hex}/telemetry, whose body is the payload
\* received, and leaves its own state map as it was.
C21_GatewayRelay ==
    (/\ lastOp.op = "TELEMETRY"
     /\ gatewayMode /\ wifiConnected /\ telemetryUrl # "") =>
        /\ Len(http) = 1
        /\ http[1].url[1] = telemetryUrl
        /\ http[1].url[2] = "/api/v1/nodes/"
        /\ HexValue(http[1].url[3]) = lastOp.from
        /\ http[1].url[4] = "/telemetry"
        /\ http[1].payload = lastOp.data
        /\ sharedState = pre

\* C21 witness: a gateway that holds state of its own has relayed the
\* telemetry of node 26, which carries state.
C21_Witness ==
    /\ lastOp.op = "TELEMETRY"
    /\ gatewayMode /\ wifiConnected /\ telemetryUrl # ""
    /\ lastOp.from = 26
    /\ lastOp.data.state # <<>>
    /\ sharedState # NoStore
    /\ http # <<>>

\* the HTTP POSTs of the last call that carry this node's own snapshot
OwnPosts == SelectSeq(http, LAMBDA h : h.url[3] = Hex(myId))

\* a push made now cannot succeed
PushFails ==
    \/ ~wifiConnected
    \/ telemetryUrl = ""
    \/ httpCode \notin {200, 201}

\* the last call was an update() that found the telemetry interval expired,
\* a successful setState with telemetry enabled, the serial command "push"
TelemetryDue ==
    /\ lastOp.op = "update"
    /\ telemetryEnabled
    /\ lastOp.at - lastOp.lastTelemetryPush >= TELEMETRY_INTERVAL
StateTriggered == lastOp.op = "setState" /\ ret /\ telemetryEnabled
ManualPush == lastOp.op = "push" /\ telemetryEnabled

\* a push that fails leaves the state map, the peers and the role as the
\* call would have left them anyway, makes no request without WiFi or
\* without a server, and is not repeated within the call
FailedPushDropped ==
    /\ (~wifiConnected \/ telemetryUrl = "") => http = <<>>
    /\ Len(http) <= 1
    /\ (PushFails /\ lastOp.op \in {"update", "push", "TELEMETRY"}) =>
           /\ sharedState = pre
           /\ myRole = lastOp.role
           /\ peers = IF /\ lastOp.op = "update"
                         /\ lastOp.at - lastOp.lastHeartbeat
                                >= HEARTBEAT_INTERVAL
                      THEN PruneDeadPeers(lastOp.peers, lastOp.at)
                      ELSE lastOp.peers
    /\ (PushFails /\ StateTriggered) =>
           sharedState[lastOp.key].value = lastOp.value

\* the interval timer is restarted by every timer-driven or state-triggered
\* send, whatever became of the push
TimerRestarted ==
    /\ TelemetryDue => lastTelemetryPush = lastOp.at
    /\ StateTriggered => lastTelemetryPush = now

\* C22: a failed telemetry push is dropped (state, peers and role as they
\* were, nothing queued), the node's own snapshot is posted again only when
\* the telemetry interval expires or a local setState succeeds, and the
\* interval timer is restarted whether or not the push succeeded.
C22_FailedPushDropped ==
    /\ FailedPushDropped
    /\ TimerRestarted
    /\ OwnPosts # <<>> => (TelemetryDue \/ StateTriggered)

\* C22, amended: as above, the serial command "push" being the third
\* occasion on which the node's own snapshot is posted.
C22_FailedPushDroppedOrManual ==
    /\ FailedPushDropped
    /\ TimerRestarted
    /\ OwnPosts # <<>> => (TelemetryDue \/ StateTriggered \/ ManualPush)

\* C22 witness: a gateway that holds state and knows a peer found its
\* telemetry interval expired and posted to a server that answers 500.
C22_Witness ==
    /\ TelemetryDue
    /\ gatewayMode /\ wifiConnected /\ telemetryUrl # ""
    /\ httpCode = 500
    /\ OwnPosts # <<>>
    /\ sharedState # NoStore
    /\ peers # <<>>

----------------------------------------------------------------------------
(* The message dispatch: MeshSwarm.cpp, onReceive *)

\* enum MsgType
MSG_HEARTBEAT == 1
MSG_STATE_SET == 2
MSG_STATE_SYNC == 3
MSG_STATE_REQ == 4
MSG_COMMAND == 5
MSG_TELEMETRY == 6

\* a message as onReceive sees it: err is deserializeJson's verdict, t is
\* doc["t"].as<int>() (0 when there is no "t"), n is doc["n"], d is doc["d"]
Msg(err, t, n, d) == [err |-> err, t |-> t, n |-> n, d |-> d]

\* the dispatch with MSG_COMMAND handled as a STATE_SET
RouteMut(msg) ==
    IF msg.err
    THEN "none"
    ELSE CASE msg.t = MSG_HEARTBEAT -> "HEARTBEAT"
           [] msg.t = MSG_STATE_SET -> "STATE_SET"
           [] msg.t = MSG_STATE_SYNC -> "STATE_SYNC"
           [] msg.t = MSG_STATE_REQ -> "STATE_REQ"
           [] msg.t = MSG_COMMAND -> "STATE_SET"
           [] msg.t = MSG_TELEMETRY -> "TELEMETRY"
           [] OTHER -> "none"

\* if (err) return; switch (type): the case that handles the message
Route(msg) ==
    IF msg.err
    THEN "none"
    ELSE CASE msg.t = MSG_HEARTBEAT -> "HEARTBEAT"
           [] msg.t = MSG_STATE_SET -> "STATE_SET"
           [] msg.t = MSG_STATE_SYNC -> "STATE_SYNC"
           [] msg.t = MSG_STATE_REQ -> "STATE_REQ"
           [] msg.t = MSG_COMMAND -> "none"
           [] msg.t = MSG_TELEMETRY -> "TELEMETRY"
           [] OTHER -> "none"

\* onReceive returns without calling a handler
Discard(from) ==
    /\ lastOp = NoOp
    /\ Ran([op |-> "discarded", from |-> from], Here, FALSE)
    /\ repeats' = 0
    /\ UNCHANGED <<configVars, electVars, pairVars, timeVars>>

\* void onReceive(uint32_t from, String &msg)
OnReceive(from, msg) ==
    LET case == Route(msg)
    IN  \/ case = "HEARTBEAT" /\ RecvHeartbeat(from, msg.n, msg.d.role)
        \/ case = "STATE_SET" /\ RecvStateSet(from, msg.d)
        \/ case = "STATE_SYNC" /\ RecvStateSync(from, msg.d.s)
        \/ case = "STATE_REQ" /\ RecvStateReq(from)
        \/ case = "TELEMETRY" /\ RecvTelemetry(from, msg.d)
        \/ case = "none" /\ Discard(from)

----------------------------------------------------------------------------
(* SpecRecv: one node and every kind of message the transport can deliver *)

\* doc["t"].as<int>() of a message without "t", and a type above the enum
NoType == 0
UnknownType == MSG_TELEMETRY + 1

\* the payloads of the messages, by kind
HeartbeatData == {[role |-> r] : r \in RoleFields \ {{"PEER"}}}
SetData == [k : Keys, v : {"0", "1"}, ver : {Ver(1), Ver(2)}, org : {Absent}]
SyncData == {[s |-> <<e>>] : e \in SyncEntries}

\* onReceive runs; the message and the node before it are remembered
Delivered(from, msg) ==
    /\ OnReceive(from, msg)
    /\ observed' = [received |-> TRUE, msg |-> [err |-> msg.err, t |-> msg.t],
                    peers |-> peers, role |-> myRole,
                    coordinatorId |-> coordinatorId]

\* a call that is not onReceive
Called == [received |-> FALSE]

NextRecv ==
    \/ \E key \in Keys, cb \in Callbacks :
           WatchState(key, cb) /\ observed' = Called
    \/ \E ids \in {{}, {myId} \cup PeerIds} : TopologyChange(ids)
    \/ \E from \in PeerIds, d \in HeartbeatData :
           Delivered(from, Msg(FALSE, MSG_HEARTBEAT, {"node"}, d))
    \/ \E from \in PeerIds, d \in SetData :
           \E t \in {MSG_STATE_SET, MSG_STATE_REQ, MSG_COMMAND,
                     NoType, UnknownType} :
               Delivered(from, Msg(FALSE, t, {"node"}, d))
    \/ \E from \in PeerIds, d \in SyncData :
           Delivered(from, Msg(FALSE, MSG_STATE_SYNC, {"node"}, d))
    \/ \E from \in PeerIds, d \in RelayData :
           Delivered(from, Msg(FALSE, MSG_TELEMETRY, {"node"}, d))
    \/ \E from \in PeerIds, d \in SetData :
           Delivered(from, Msg(TRUE, NoType, {}, d))
    \/ Return /\ UNCHANGED observed

SpecRecv == InitPeers /\ [][NextRecv]_vars

\* the last call was onReceive with a message that cannot be parsed or
\* whose type has no handler
Unhandled ==
    /\ lastOp # NoOp
    /\ observed.received
    /\ \/ observed.msg.err
       \/ observed.msg.t \notin {MSG_HEARTBEAT, MSG_STATE_SET, MSG_STATE_SYNC,
                                 MSG_STATE_REQ, MSG_TELEMETRY}

\* C23: a message that cannot be parsed, or whose type is not handled
\* (MSG_COMMAND included), is discarded: the state map, the peers, the role
\* and the coordinator are as before, no watcher fires, nothing is sent.
C23_Discarded ==
    Unhandled =>
        /\ sharedState = pre
        /\ peers = observed.peers
        /\ myRole = observed.role
        /\ coordinatorId = observed.coordinatorId
        /\ fired = <<>>
        /\ sent = <<>>
        /\ http = <<>>

\* C23 witness: a node with a watcher on "led" that would elect itself
\* receives a MSG_COMMAND whose payload is that of an acceptable STATE_SET.
C23_Witness ==
    /\ Unhandled
    /\ ~observed.msg.err
    /\ observed.msg.t = MSG_COMMAND
    /\ "led" \in DOMAIN stateWatchers
    /\ myRole # RoleOf(Lowest(myId, nodeList), myId)

----------------------------------------------------------------------------
(* One polling tick: update() with the transport delivering inside          *)
(* mesh.update(), as section 2 of the specification describes the transport *)

\* onReceive(from, msg), on a node while update() runs
Dispatch(n, from, msg) ==
    LET case == Route(msg)
    IN  CASE case = "HEARTBEAT" ->
                 [n EXCEPT !.peers = HeartbeatUpsert(@, from, msg.n,
                                                     msg.d.role, now),
                           !.coord = Lowest(myId, nodeList),
                           !.role = RoleOf(Lowest(myId, nodeList), myId)]
          [] case = "STATE_SET" ->
                 [n EXCEPT !.c = HandleStateSet(@, from, msg.d)]
          [] case = "STATE_SYNC" ->
                 [n EXCEPT !.c = HandleStateSync(@, from, msg.d.s)]
          [] case = "STATE_REQ" ->
                 [n EXCEPT !.c = BroadcastFullState(@)]
          [] case = "TELEMETRY" ->
                 [n EXCEPT !.c = OnTelemetry(@, from, msg.d)]
          [] OTHER -> n

RECURSIVE MeshUpdate(_, _)
\* mesh.update(): the transport hands every queued message to onReceive, in
\* the order of their arrival
MeshUpdate(n, queue) ==
    IF queue = <<>>
    THEN n
    ELSE MeshUpdate(Dispatch(n, Head(queue).from, Head(queue).msg),
                    Tail(queue))

\* lastTelemetryPush once the handlers have run: a setState made by a
\* watcher sets it
PushedAt(c, lt) ==
    IF c.tele /\ \E i \in 1..Len(c.sent) : c.sent[i].t = "STATE_SET"
    THEN now
    ELSE lt

\* update() evaluating its timers before the transport delivers
PolledMut(n, queue, lh, ls, lt) ==
    LET r == Timers(n, lh, ls, lt)
        m == MeshUpdate(Node(r.c, r.peers, r.role, r.coord), queue)
    IN  [r EXCEPT !.c = m.c, !.peers = m.peers, !.role = m.role,
                  !.coord = m.coord]

\* update(): mesh.update(), then the timers
Polled(n, queue, lh, ls, lt) ==
    LET m == MeshUpdate(n, queue)
    IN  Timers(m, lh, ls, PushedAt(m.c, lt))

\* messages held by the transport for one node
MaxQueue == 2

\* the transport receives a message for the node
Arrive(from, msg) ==
    /\ lastOp = NoOp
    /\ Len(net) < MaxQueue
    /\ net' = Append(net, [from |-> from, msg |-> msg])
    /\ UNCHANGED <<replica, delivered, scenario, nodeVars, nav, boot>>

\* the application's loop() calls update()
UpdateTick ==
    /\ lastOp = NoOp
    /\ LET r == Polled(Node(Here, peers, myRole, coordinatorId), net,
                       lastHeartbeat, lastStateSync, lastTelemetryPush)
       IN  /\ Ran([op |-> "update", at |-> now, queue |-> net,
                   peers |-> peers, role |-> myRole,
                   lastHeartbeat |-> lastHeartbeat,
                   lastStateSync |-> lastStateSync,
                   lastTelemetryPush |-> lastTelemetryPush],
                  r.c, FALSE)
           /\ peers' = r.peers
           /\ myRole' = r.role
           /\ coordinatorId' = r.coord
           /\ lastHeartbeat' = IF r.heartbeat THEN now ELSE lastHeartbeat
           /\ lastStateSync' = IF r.sync THEN now ELSE lastStateSync
           /\ lastTelemetryPush' =
                  IF r.telemetry THEN now ELSE PushedAt(r.c, lastTelemetryPush)
    /\ net' = <<>>
    /\ repeats' = 0
    /\ UNCHANGED <<configVars, nodeList, now, replica, delivered, scenario,
                   nav, boot>>

----------------------------------------------------------------------------
(* SpecTick: one node polled by its application while messages arrive *)

InitTick ==
    /\ myId = 1
    /\ Constructed
    /\ replica = <<>>
    /\ delivered = <<>>
    /\ scenario = <<>>
    /\ net = <<>>

\* the STATE_SET payloads that arrive
TickData == [k : Keys, v : {"1"}, ver : {Ver(1), Ver(2)}, org : {Absent}]

NextTick ==
    \/ \E enable \in BOOLEAN : EnableTelemetry(enable) /\ UNCHANGED observed
    \/ Elapse(STATE_SYNC_INTERVAL) /\ UNCHANGED observed
    \/ \E from \in PeerIds :
           /\ Arrive(from, Msg(FALSE, MSG_HEARTBEAT, {"node"},
                               [role |-> {"COORD"}]))
           /\ UNCHANGED observed
    \/ \E from \in PeerIds, d \in TickData :
           /\ Arrive(from, Msg(FALSE, MSG_STATE_SET, {"node"}, d))
           /\ UNCHANGED observed
    \/ UpdateTick /\ UNCHANGED observed
    \/ Return /\ UNCHANGED observed

SpecTick == InitTick /\ [][NextTick]_vars

----------------------------------------------------------------------------
(* SpecTimer: update() called at times that are not multiples of its       *)
(* intervals, between connection events                                    *)

\* here the clock advances by half a heartbeat interval at a time
ShortStep == HEARTBEAT_INTERVAL \div 2

\* when the heartbeat and the full-sync timers fired: <<the heartbeat fire
\* before the last update(), the last heartbeat fire, the sync fire before
\* the last update(), the last sync fire>>; a timer that never fired counts
\* from 0, the value its variable is constructed with
Fires == IF Len(observed) = 0 THEN <<0, 0, 0, 0>> ELSE observed

\* update() runs; a heartbeat it broadcasts and a change of lastStateSync
\* are the fires of the two timers
TimedUpdate ==
    /\ Update
    /\ observed' =
           <<Fires[2],
             IF \E i \in 1..Len(sent') : sent'[i].t = "HEARTBEAT"
             THEN now
             ELSE Fires[2],
             Fires[4],
             IF lastStateSync' # lastStateSync THEN now ELSE Fires[4]>>

NextTimer ==
    \/ Elapse(ShortStep) /\ UNCHANGED observed
    \/ TimedUpdate
    \/ \E nodeId \in PeerIds : OnNewConnection(nodeId) /\ UNCHANGED observed
    \/ \E from \in PeerIds : RecvStateReq(from) /\ UNCHANGED observed
    \/ \E from \in PeerIds, d \in TickData :
           RecvStateSet(from, d) /\ UNCHANGED observed
    \/ Return /\ UNCHANGED observed

SpecTimer == InitPeers /\ [][NextTimer]_vars

\* C25: an update() broadcasts its heartbeat exactly when its clock sample
\* is at least HEARTBEAT_INTERVAL past the sample of the previous
\* timer-driven heartbeat, and runs its full sync exactly when the sample
\* is at least STATE_SYNC_INTERVAL past that of the previous timer-driven
\* sync (broadcasting a STATE_SYNC then if it holds state); the heartbeats
\* and syncs of onNewConnection and STATE_REQ do not count as fires.
C25_TimerRule ==
    lastOp.op = "update" =>
        /\ HeartbeatsSent # <<>>
               <=> lastOp.at - Fires[1] >= HEARTBEAT_INTERVAL
        /\ Len(HeartbeatsSent) <= 1
        /\ Fires[4] # Fires[3]
               <=> lastOp.at - Fires[3] >= STATE_SYNC_INTERVAL
        /\ sharedState # NoStore =>
               (StateSyncsSent # <<>>
                    <=> lastOp.at - Fires[3] >= STATE_SYNC_INTERVAL)

\* C25 witness: an update() half an interval after an onNewConnection that
\* broadcast a heartbeat and a full sync fires both timers, one interval
\* after their previous fires.
C25_Witness ==
    /\ lastOp.op = "update"
    /\ HeartbeatsSent # <<>>
    /\ StateSyncsSent # <<>>
    /\ Fires[1] > 0
    /\ Fires[3] > 0
    /\ lastOp.at - Fires[1] = HEARTBEAT_INTERVAL
    /\ lastOp.at - Fires[3] = STATE_SYNC_INTERVAL

----------------------------------------------------------------------------
(* SpecTwin: two runs of one node, given the same node list by the         *)
(* transport and different heartbeats                                      *)

\* an election among the peers that are alive, in place of the node list
ElectCoordinatorRMut(id, ids, ps) ==
    LET lowest == Lowest(id, {p \in DOMAIN ps : ps[p].alive})
    IN  [coordinatorId |-> lowest, myRole |-> RoleOf(lowest, id)]

\* electCoordinator() of node id, whose transport lists ids and whose peer
\* registry is ps: the coordinatorId and the myRole it assigns
ElectCoordinatorR(id, ids, ps) ==
    LET lowest == Lowest(id, ids)
    IN  [coordinatorId |-> lowest, myRole |-> RoleOf(lowest, id)]

\* one run of the node
Twin(ids, ps, role, coordinator, elected) ==
    [nodeList |-> ids, peers |-> ps, myRole |-> role,
     coordinatorId |-> coordinator, elected |-> elected]

\* the run after electCoordinator()
Elected(id, t) ==
    LET e == ElectCoordinatorR(id, t.nodeList, t.peers)
    IN  Twin(t.nodeList, t.peers, e.myRole, e.coordinatorId, TRUE)

Runs == {"a", "b"}

InitTwin ==
    /\ myId = 0
    /\ Constructed
    /\ \E id \in GroupIds : scenario = [id |-> id]
    /\ replica = [x \in Runs |-> Twin({}, <<>>, "PEER", 0, FALSE)]
    /\ delivered = <<>>
    /\ net = {}

\* in both runs the transport gains or loses the connection to node id
TwinView(id) ==
    /\ replica' = [x \in Runs |->
                      [replica[x] EXCEPT
                           !.nodeList = IF id \in @ THEN @ \ {id}
                                                   ELSE @ \cup {id},
                           !.elected = FALSE]]
    /\ UNCHANGED <<delivered, scenario, net, nodeVars, nav, boot>>

\* onChangedConnections() in run x
TwinElect(x) ==
    /\ ~replica[x].elected
    /\ replica' = [replica EXCEPT ![x] = Elected(scenario.id, @)]
    /\ UNCHANGED <<delivered, scenario, net, nodeVars, nav, boot>>

\* run x receives a HEARTBEAT from node from
TwinHeartbeat(x, from) ==
    /\ replica' =
           [replica EXCEPT
                ![x] = Elected(scenario.id,
                               [@ EXCEPT !.peers =
                                    HeartbeatUpsert(@, from, {"node"},
                                                    {"COORD"}, now)])]
    /\ UNCHANGED <<delivered, scenario, net, nodeVars, nav, boot>>

\* onDroppedConnection(nodeId) in run x
TwinDropped(x, nodeId) ==
    /\ nodeId \in DOMAIN replica[x].peers
    /\ replica[x].peers[nodeId].alive
    /\ replica' =
           [replica EXCEPT
                ![x] = Elected(scenario.id,
                               [@ EXCEPT !.peers[nodeId].alive = FALSE])]
    /\ UNCHANGED <<delivered, scenario, net, nodeVars, nav, boot>>

NextTwin ==
    \/ \E id \in GroupIds \ {scenario.id} : TwinView(id)
    \/ \E x \in Runs : TwinElect(x)
    \/ \E x \in Runs, from \in GroupIds \ {scenario.id} :
           TwinHeartbeat(x, from)
    \/ \E x \in Runs, nodeId \in GroupIds \ {scenario.id} :
           TwinDropped(x, nodeId)

SpecTwin == InitTwin /\ [][NextTwin]_vars

\* C26: two runs of a node with the same id and the same node list that have
\* both run the election hold the same role and the same coordinatorId,
\* whatever their peer registries hold.
C26_ElectionIgnoresPeers ==
    (\A x \in Runs : replica[x].elected) =>
        /\ replica["a"].myRole = replica["b"].myRole
        /\ replica["a"].coordinatorId = replica["b"].coordinatorId

\* C26 witness: the node list is empty and the runs have elected; one run
\* holds a live peer with a lower id than the node's, the other holds that
\* peer as dead.
C26_Witness ==
    /\ \A x \in Runs : replica[x].elected
    /\ replica["a"].nodeList = {}
    /\ \E p \in DOMAIN replica["a"].peers \cap DOMAIN replica["b"].peers :
           /\ p < scenario.id
           /\ replica["a"].peers[p].alive
           /\ ~replica["b"].peers[p].alive

----------------------------------------------------------------------------
(* SpecLive: a node that holds state and a watcher while its peers come,   *)
(* drop and time out                                                       *)

NextLive ==
    \/ Elapse(LongStep) /\ UNCHANGED observed
    \/ Update /\ UNCHANGED observed
    \/ \E ids \in {{}, PeerIds} : TopologyChange(ids)
    \/ \E from \in PeerIds :
           RecvHeartbeat(from, {"node"}, {"COORD"}) /\ UNCHANGED observed
    \/ \E nodeId \in PeerIds :
           OnDroppedConnection(nodeId) /\ UNCHANGED observed
    \/ \E from \in PeerIds, d \in TickData :
           RecvStateSet(from, d) /\ UNCHANGED observed
    \/ WatchState("led", LogCb) /\ UNCHANGED observed
    \/ Return /\ UNCHANGED observed

SpecLive == InitPeers /\ [][NextLive]_vars

\* the peers a registry holds as dead
Dead(ps) == {id \in DOMAIN ps : ~ps[id].alive}

\* onDroppedConnection(X) and an update() that pruned leave the state map
\* alone and fire no watcher; the first sends nothing, the second only what
\* its timers send; X stays registered, not alive and not counted
LivenessFrame ==
    /\ lastOp.op = "onDroppedConnection" =>
           LET X == lastOp.nodeId
           IN  /\ sharedState = pre
               /\ fired = <<>>
               /\ sent = <<>>
               /\ http = <<>>
               /\ DOMAIN peers = DOMAIN lastOp.peers
               /\ \A id \in DOMAIN peers :
                      peers[id] = IF id = X
                                  THEN [lastOp.peers[id] EXCEPT !.alive = FALSE]
                                  ELSE lastOp.peers[id]
               /\ GetPeerCount(peers)
                      = Cardinality((DOMAIN peers \ Dead(lastOp.peers)) \ {X})
    /\ (lastOp.op = "update" /\ DOMAIN peers # DOMAIN lastOp.peers) =>
           /\ sharedState = pre
           /\ fired = <<>>
           /\ http = <<>>
           /\ Len(HeartbeatsSent) = 1
           /\ Len(StateSyncsSent) <= 1
           /\ Len(sent) = Len(HeartbeatsSent) + Len(StateSyncsSent)
           /\ \A id \in DOMAIN peers : peers[id] = lastOp.peers[id]

\* a dead peer stays registered and dead, but for the update() that prunes
\* it after PeerTimeout of silence and for a heartbeat from it
DeadUntil ==
    \A X \in Dead(peers) :
        \/ X \in Dead(peers')
        \/ /\ lastOp'.op = "update"
           /\ X \notin DOMAIN peers'
           /\ now - peers[X].lastSeen > PeerTimeout
        \/ /\ lastOp'.op = "HEARTBEAT"
           /\ lastOp'.from = X
           /\ X \in DOMAIN peers'
           /\ peers'[X].alive

\* C27: pruneDeadPeers() and onDroppedConnection(X) change no state entry,
\* fire no watcher and broadcast nothing; onDroppedConnection(X) keeps X
\* registered with alive = false, not counted by getPeerCount(), until
\* pruning removes it or a heartbeat from X sets it alive again.
C27_LivenessTransitions ==
    []LivenessFrame /\ [][DeadUntil]_vars

\* C27 witness: a node with state and a watcher has marked one of its two
\* peers dead, the other staying alive.
C27_Witness ==
    /\ lastOp.op = "onDroppedConnection"
    /\ lastOp.nodeId \in DOMAIN lastOp.peers
    /\ lastOp.peers[lastOp.nodeId].alive
    /\ GetPeerCount(peers) = 1
    /\ sharedState # NoStore
    /\ "led" \in DOMAIN stateWatchers

----------------------------------------------------------------------------
(* SpecKeys: one node under local writes, messages of every kind,          *)
(* connection events and ticks                                             *)

\* the STATE_SET payloads that arrive: two keys, empty values among them
KeysData == [k : FullKeys, v : {"", "1"}, ver : {Ver(1), UINT32_MAX},
             org : {Absent}]

NextKeys ==
    \/ \E key \in FullKeys, value \in {"", "1"} :
           SetState(key, value) /\ UNCHANGED observed
    \/ \E d \in KeysData : RecvStateSet(2, d) /\ UNCHANGED observed
    \/ \E d \in KeysData : RecvStateSync(2, <<d>>) /\ UNCHANGED observed
    \/ RecvStateReq(2) /\ UNCHANGED observed
    \/ RecvHeartbeat(2, {"node"}, {"COORD"}) /\ UNCHANGED observed
    \/ \E ids \in {{}, PeerIds} : TopologyChange(ids)
    \/ OnNewConnection(2) /\ UNCHANGED observed
    \/ OnDroppedConnection(2) /\ UNCHANGED observed
    \/ OnChangedConnections
    \/ Elapse(LongStep) /\ UNCHANGED observed
    \/ Update /\ UNCHANGED observed
    \/ Return /\ UNCHANGED observed

SpecKeys == InitPeers /\ [][NextKeys]_vars

\* C28: no step removes a key from the state map.
C28_KeysOnlyGrow ==
    [][DOMAIN sharedState \subseteq DOMAIN sharedState']_vars

\* C28 witness: the node holds two keys and has just overwritten one of them
\* with the empty value.
C28_Witness ==
    /\ lastOp.op = "setState"
    /\ lastOp.value = ""
    /\ ret
    /\ DOMAIN pre = FullKeys
    /\ DOMAIN sharedState = FullKeys

----------------------------------------------------------------------------
(* The routing of a node's own telemetry, under SpecRelay *)

\* C29: when the telemetry interval expires or a local setState succeeds, a
\* gateway posts its own snapshot over HTTP and broadcasts no TELEMETRY, and
\* a node that is not a gateway broadcasts one TELEMETRY and makes no HTTP
\* request.
C29_RoutingByMode ==
    (TelemetryDue \/ StateTriggered) =>
        IF gatewayMode
        THEN /\ TelemetrySent = <<>>
             /\ OwnPosts = http
             /\ (wifiConnected /\ telemetryUrl # "") => Len(http) = 1
        ELSE /\ http = <<>>
             /\ Len(TelemetrySent) = 1
             /\ TelemetrySent[1].state = Snapshot(sharedState)

\* C29 witness: a gateway with a server and WiFi has posted its snapshot
\* after a setState.
C29_Witness ==
    /\ StateTriggered
    /\ gatewayMode
    /\ http # <<>>

----------------------------------------------------------------------------
(* SpecNav: the screen navigation of the touch169 node: navigateTo and     *)
(* navigateBack in any order, the clock moving between the calls           *)

\* Navigator::getParent(screen)
GetParent(n, screen) ==
    CASE screen \in {"Humidity", "Temperature", "Light", "MotionLed",
                     "Calendar", "ClockDetails"} -> "Clock"
      [] screen = "HumiditySettings" -> "Humidity"
      [] screen = "TempSettings" -> "Temperature"
      [] screen = "LightSettings" -> "Light"
      [] screen = "MotionLedSettings" -> "MotionLed"
      [] screen = "DateSettings" -> "Calendar"
      [] screen = "TimeSettings" -> "ClockDetails"
      [] screen \in {"Alarm", "Stopwatch"} -> "ClockDetails"
      [] screen = "NavMenu" -> n.previous
      [] screen = "Debug" -> "Clock"
      [] OTHER -> "Clock"

\* Navigator::navigateTo(screen) at millis() = t
NavigateToR(n, screen, t) ==
    IF screen = n.current
    THEN n
    ELSE [current |-> screen,
          previous |-> IF screen # "NavMenu" THEN n.current ELSE n.previous,
          changed |-> TRUE,
          transitionTime |-> t]

\* Navigator::navigateBack() at millis() = t
NavigateBackR(n, t) ==
    IF n.current = "Clock"
    THEN n
    ELSE [n EXCEPT !.current = GetParent(n, n.current),
                   !.changed = TRUE,
                   !.transitionTime = t]

\* a call of the Navigator, as the history records it
NavCall(op, screen, from) == [op |-> op, screen |-> screen, from |-> from]

\* the last two calls
Recent(h, call) == IF h = <<>> THEN <<call>> ELSE <<h[Len(h)], call>>

NavigateTo(screen) ==
    /\ nav' = NavigateToR(nav, screen, now)
    /\ observed' = Recent(observed, NavCall("navigateTo", screen, nav.current))
    /\ UNCHANGED <<myId, sharedState, stateWatchers, electVars,
                   telemetryEnabled, gatewayMode, telemetryUrl, wifiConnected,
                   httpCode, lastOp, pre, ret, fired, sent, http, repeats,
                   timeVars, replica, delivered, scenario, net, boot>>

NavigateBack ==
    /\ nav' = NavigateBackR(nav, now)
    /\ observed' = Recent(observed,
                          NavCall("navigateBack", nav.current, nav.current))
    /\ UNCHANGED <<myId, sharedState, stateWatchers, electVars,
                   telemetryEnabled, gatewayMode, telemetryUrl, wifiConnected,
                   httpCode, lastOp, pre, ret, fired, sent, http, repeats,
                   timeVars, replica, delivered, scenario, net, boot>>

\* Navigator::clearChanged(), after the screen was redrawn
ClearChanged ==
    /\ nav.changed
    /\ nav' = [nav EXCEPT !.changed = FALSE]
    /\ UNCHANGED <<nodeVars, replica, delivered, scenario, net, boot>>

NextNav ==
    \/ \E screen \in Screens : NavigateTo(screen)
    \/ NavigateBack
    \/ ClearChanged
    \/ Elapse(LongStep) /\ UNCHANGED observed

SpecNav == InitPeers /\ [][NextNav]_vars

\* the menu was opened from a screen S other than the menu, and the call
\* after that was navigateBack()
MenuThenBack ==
    /\ Len(observed) = 2
    /\ observed[1].op = "navigateTo"
    /\ observed[1].screen = "NavMenu"
    /\ observed[1].from # "NavMenu"
    /\ observed[2].op = "navigateBack"

\* C30: when navigateTo(NavMenu) is called while a screen S other than the
\* menu is current, the next navigateBack() makes S the current screen
\* again.
C30_MenuReturn ==
    MenuThenBack => nav.current = observed[1].from

----------------------------------------------------------------------------
(* SpecHeal: two nodes write for a while and then only exchange their      *)
(* periodic full syncs, each of which reaches the other node               *)

Healers == {1, 2}

\* local writes made before the writes stop
MaxWrites == 2

InitHeal ==
    /\ myId = 0
    /\ Constructed
    /\ replica = [x \in Healers |-> NoStore]
    /\ delivered = 0
    /\ scenario = <<>>
    /\ net = {}

\* node x calls setState(key, value)
HealWrite(x, key, value) ==
    /\ delivered < MaxWrites
    /\ LET r == SetStateR(Writer(x, replica[x]), key, value)
       IN  /\ r.ret
           /\ replica' = [replica EXCEPT ![x] = r.c.st]
    /\ delivered' = delivered + 1
    /\ UNCHANGED <<scenario, net, nodeVars, nav, boot>>

\* update() at node x finds the sync interval expired and broadcasts its
\* full state; node y receives the STATE_SYNC. lastOp tells the delivery
\* from the one before it, by its sender and the parity of its number
HealSync(x, y) ==
    /\ x # y
    /\ LET c == BroadcastFullState(Writer(x, replica[x]))
       IN  /\ c.sent # <<>>
           /\ replica' = [replica EXCEPT
                             ![y] = HandleStateSync(Writer(y, @), x,
                                                    c.sent[1].s).st]
    /\ lastOp' = [op |-> "STATE_SYNC", from |-> x,
                  odd |-> IF lastOp = NoOp THEN TRUE ELSE ~lastOp.odd]
    /\ UNCHANGED <<myId, sharedState, stateWatchers, electVars,
                   telemetryEnabled, gatewayMode, telemetryUrl, wifiConnected,
                   httpCode, pre, ret, fired, sent, http, repeats, observed,
                   timeVars, delivered, scenario, net, nav, boot>>

NextHeal ==
    \/ \E x \in Healers, key \in FullKeys, value \in Values :
          HealWrite(x, key, value)
    \/ \E x \in Healers, y \in Healers : HealSync(x, y)

\* every broadcast is eventually delivered to the other node
HealFair == \A x \in Healers, y \in Healers : WF_vars(HealSync(x, y))

SpecHeal == InitHeal /\ [][NextHeal]_vars /\ HealFair

\* every node answers getState(key, d) alike
SameAnswers ==
    \A x \in Healers, y \in Healers, key \in FullKeys, d \in Defaults :
        GetStateR(Writer(x, replica[x]), key, d).ret
            = GetStateR(Writer(y, replica[y]), key, d).ret

\* C31: once the local writes have stopped and the periodic STATE_SYNC
\* broadcasts keep reaching every other node, eventually all nodes return
\* the same getState(key, d) for every key and default, from then on.
C31_ValueConvergence == <>[]SameAnswers

----------------------------------------------------------------------------
(* SpecProv: three nodes running this code; every broadcast stays in the   *)
(* network and may reach any other node any number of times, in any order  *)

Provers == {1, 2, 3}

InitProv ==
    /\ myId = 0
    /\ Constructed
    /\ replica = [x \in Provers |-> NoStore]
    /\ delivered = 0
    /\ scenario = <<>>
    /\ net = {}

\* an entry as node origin wrote it; observed lists them in the order of
\* the writes
Written(key, entry) == [k |-> key, e |-> entry]

\* node x calls setState(key, value) and broadcasts the STATE_SET
ProvWrite(x, key, value) ==
    /\ Len(observed) < MaxWrites
    /\ LET r == SetStateR(Writer(x, replica[x]), key, value)
       IN  /\ r.ret
           /\ replica' = [replica EXCEPT ![x] = r.c.st]
           /\ net' = net \cup {[from |-> x, msg |-> r.c.sent[i]] :
                                  i \in 1..Len(r.c.sent)}
           /\ observed' = Append(observed, Written(key, r.c.st[key]))
    /\ lastOp' = NoOp
    /\ UNCHANGED <<myId, sharedState, stateWatchers, electVars,
                   telemetryEnabled, gatewayMode, telemetryUrl, wifiConnected,
                   httpCode, pre, ret, fired, sent, http, repeats, timeVars,
                   delivered, scenario, nav, boot>>

\* update() at node x broadcasts the full state
ProvSync(x) ==
    /\ LET c == BroadcastFullState(Writer(x, replica[x]))
       IN  /\ c.sent # <<>>
           /\ [from |-> x, msg |-> c.sent[1]] \notin net
           /\ net' = net \cup {[from |-> x, msg |-> c.sent[1]]}
    /\ lastOp' = NoOp
    /\ UNCHANGED <<myId, sharedState, stateWatchers, electVars,
                   telemetryEnabled, gatewayMode, telemetryUrl, wifiConnected,
                   httpCode, pre, ret, fired, sent, http, repeats, timeVars,
                   observed, replica, delivered, scenario, nav, boot>>

\* onReceive at node y, for a STATE_SET or a STATE_SYNC another node sent
\* (the deliveries that change nothing are left out)
ProvReceive(y, m) ==
    /\ m.from # y
    /\ LET c == IF m.msg.t = "STATE_SET"
                THEN HandleStateSet(Writer(y, replica[y]), m.from,
                         [k |-> m.msg.k, v |-> m.msg.v, ver |-> m.msg.ver,
                          org |-> m.msg.org])
                ELSE HandleStateSync(Writer(y, replica[y]), m.from, m.msg.s)
       IN  /\ c.st # replica[y]
           /\ replica' = [replica EXCEPT ![y] = c.st]
    /\ lastOp' = [op |-> m.msg.t, at |-> y, from |-> m.from]
    /\ UNCHANGED <<myId, sharedState, stateWatchers, electVars,
                   telemetryEnabled, gatewayMode, telemetryUrl, wifiConnected,
                   httpCode, pre, ret, fired, sent, http, repeats, timeVars,
                   observed, delivered, scenario, net, nav, boot>>

NextProv ==
    \/ \E x \in Provers, key \in Keys, value \in {"", "1"} :
          ProvWrite(x, key, value)
    \/ \E x \in Provers : ProvSync(x)
    \/ \E y \in Provers, m \in net : ProvReceive(y, m)

SpecProv == InitProv /\ [][NextProv]_vars

\* C32: every entry a node holds is an entry that the node named as its
\* origin stored, for that key, in a successful local setState.
C32_Provenance ==
    \A x \in Provers : \A key \in DOMAIN replica[x] :
        /\ \E i \in 1..Len(observed) :
              observed[i] = Written(key, replica[x][key])
        /\ replica[x][key].origin \in Provers

\* C32 witness: a STATE_SYNC relayed by a node that is not the origin gave
\* the receiver an entry of a third node.
C32_Witness ==
    /\ lastOp.op = "STATE_SYNC"
    /\ \E key \in DOMAIN replica[lastOp.at] :
          replica[lastOp.at][key].origin \notin {lastOp.at, lastOp.from}

----------------------------------------------------------------------------
(* SpecSilent: one node with watchers and telemetry, written locally and   *)
(* handed STATE_SET and STATE_SYNC messages as time passes                 *)

NextSilent ==
    \/ Elapse(LongStep) /\ UNCHANGED observed
    \/ \E key \in Keys, value \in {"0", "1"} :
           SetState(key, value) /\ UNCHANGED observed
    \/ \E data \in SetData : RecvStateSet(2, data) /\ UNCHANGED observed
    \/ \E data \in SetData, more \in SetData :
           RecvStateSync(2, <<data, more>>) /\ UNCHANGED observed
    \/ \E key \in WatchKeys, cb \in Callbacks :
           WatchState(key, cb) /\ UNCHANGED observed
    \/ \E enable \in BOOLEAN : EnableTelemetry(enable) /\ UNCHANGED observed
    \/ \E enable \in BOOLEAN : SetGatewayMode(enable) /\ UNCHANGED observed
    \/ SetTelemetryServer("http://server") /\ UNCHANGED observed
    \/ WifiChange /\ UNCHANGED observed
    \/ Return /\ UNCHANGED observed

SpecSilent == InitPeers /\ [][NextSilent]_vars

\* the step is the handling of a received STATE_SET or STATE_SYNC
Receiving == lastOp = NoOp /\ lastOp'.op \in {"STATE_SET", "STATE_SYNC"}

\* the step sends nothing over the mesh or over HTTP and leaves the
\* telemetry timer alone
Silent ==
    /\ sent' = <<>>
    /\ http' = <<>>
    /\ lastTelemetryPush' = lastTelemetryPush

\* a callback that calls setState ran during the step
SetterRan ==
    \E i \in 1..Len(fired') :
        stateWatchers[fired'[i].w][fired'[i].i].act = "set"

\* C33: handling a received STATE_SET or STATE_SYNC, accepted or rejected,
\* broadcasts no mesh message, makes no telemetry send and does not reset
\* the telemetry timer.
C33_ReceivingSilent == [][Receiving => Silent]_vars

\* C33, amended: the same, unless a watcher run for an accepted update
\* calls setState itself.
C33_ReceivingSilentNoSetter == [][Receiving /\ ~SetterRan => Silent]_vars

\* C33 witness: with telemetry enabled and the telemetry timer behind the
\* clock, an accepted update has run a watcher and nothing was sent.
C33_Witness ==
    /\ lastOp.op \in {"STATE_SET", "STATE_SYNC"}
    /\ telemetryEnabled
    /\ fired # <<>>
    /\ sharedState # pre
    /\ sent = <<>> /\ http = <<>>
    /\ lastTelemetryPush < now

----------------------------------------------------------------------------
(* Telemetry switched off, under SpecRelay *)

\* C34: while telemetryEnabled is false, no update(), setState or received
\* message (a TELEMETRY received in gateway mode included) makes the node
\* broadcast a TELEMETRY message or make an HTTP POST.
C34_NoTelemetryWhenDisabled ==
    ~telemetryEnabled => TelemetrySent = <<>> /\ http = <<>>

\* C34, amended: while telemetryEnabled is false the node sends no telemetry
\* of its own; the only HTTP POST it makes is the relay of a TELEMETRY
\* message received in gateway mode.
C34_NoOwnTelemetryWhenDisabled ==
    ~telemetryEnabled =>
        /\ TelemetrySent = <<>>
        /\ OwnPosts = <<>>
        /\ http # <<>> => lastOp.op = "TELEMETRY" /\ gatewayMode

\* C34 witness: with telemetry disabled, a gateway with WiFi and a server, or
\* a node that is not a gateway, has made a successful setState and sent
\* nothing but the STATE_SET.
C34_Witness ==
    /\ ~telemetryEnabled
    /\ lastOp.op = "setState" /\ ret
    /\ wifiConnected /\ telemetryUrl # ""
    /\ http = <<>>
    /\ Len(sent) = 1

----------------------------------------------------------------------------
(* SpecStar: one node whose state keys include the key named "*" *)

\* the STATE_SET payloads received: every key an application can write
StarData == [k : WatchKeys, v : {"0", "1"}, ver : {Ver(1), Ver(2)},
             org : {Absent}]

NextStar ==
    \/ \E key \in WatchKeys, value \in {"0", "1"} :
           SetState(key, value) /\ UNCHANGED observed
    \/ \E data \in StarData : RecvStateSet(2, data) /\ UNCHANGED observed
    \/ \E key \in WatchKeys :
           WatchStateUpTo(MaxCbs, key, LogCb) /\ UNCHANGED observed
    \/ Return /\ UNCHANGED observed

SpecStar == InitPeers /\ [][NextStar]_vars

\* how often the i-th callback registered under wkey ran in the last call
Invocations(wkey, i) ==
    Cardinality({j \in 1..Len(fired) : fired[j].w = wkey /\ fired[j].i = i})

\* C35: a setState or a received STATE_SET, which changes one key at most,
\* invokes each registered callback at most once, whatever the key is
\* called, the key named "*" included.
C35_OncePerChange ==
    lastOp.op \in {"setState", "STATE_SET"} =>
        \A wkey \in DOMAIN stateWatchers :
            \A i \in 1..Len(stateWatchers[wkey]) : Invocations(wkey, i) <= 1

----------------------------------------------------------------------------
(* Payloads without a key, under Spec. String key = data["k"] | "" gives a *)
(* missing key and an empty key the same payload, k = ""                   *)

\* the indices of the elements of a STATE_SYNC array that carry no key
Keyless(arr) == {i \in 1..Len(arr) : arr[i].k = ""}

\* element j is the only one of the array for its key, and the node as it
\* was before the message accepts it
AcceptedAlone(arr, j) ==
    /\ arr[j].k # ""
    /\ \A i \in 1..Len(arr) : i # j => arr[i].k # arr[j].k
    /\ Accepts(pre, arr[j].k, arr[j].v, arr[j].ver,
               OriginOf(lastOp.from, arr[j]))

\* C36: a received STATE_SET without a key changes nothing and fires no
\* watcher; a keyless element of a STATE_SYNC array creates no entry and
\* fires no watcher, and the elements after it are still handled.
C36_KeylessDiscarded ==
    /\ (lastOp.op = "STATE_SET" /\ lastOp.data.k = "") =>
           sharedState = pre /\ fired = <<>> /\ sent = <<>>
    /\ lastOp.op = "STATE_SYNC" =>
           /\ "" \notin DOMAIN sharedState
           /\ \A i \in 1..Len(fired) : fired[i].key # ""
           /\ Keyless(lastOp.arr) = 1..Len(lastOp.arr) =>
                  sharedState = pre /\ fired = <<>>
           /\ ~HasSetter(stateWatchers) =>
                  \A i \in Keyless(lastOp.arr) :
                      \A j \in (i + 1)..Len(lastOp.arr) :
                          AcceptedAlone(lastOp.arr, j) =>
                              /\ lastOp.arr[j].k \in DOMAIN sharedState
                              /\ sharedState[lastOp.arr[j].k]
                                     = Entry(lastOp.arr[j].v, lastOp.arr[j].ver,
                                             OriginOf(lastOp.from,
                                                      lastOp.arr[j]))

\* C36 witness: a STATE_SYNC array whose first element has no key and whose
\* second element was applied and has fired a watcher.
C36_Witness ==
    /\ lastOp.op = "STATE_SYNC"
    /\ Len(lastOp.arr) = 2
    /\ Keyless(lastOp.arr) = {1}
    /\ sharedState # pre
    /\ fired # <<>>

----------------------------------------------------------------------------
(* Backing out to the root, under SpecNav *)

RECURSIVE Backs(_, _, _)
\* the Navigator after k calls of navigateBack() in a row, at millis() = t
Backs(n, k, t) ==
    IF k = 0 THEN n ELSE Backs(NavigateBackR(n, t), k - 1, t)

\* C37: from every state the Navigator can reach, calling navigateBack()
\* again and again shows Clock after finitely many calls. (navigateBack()
\* reads _current and _previous and writes _current only: a run of calls
\* that has not shown Clock after as many calls as there are screens
\* repeats a screen and never will.)
C37_BackReachesRoot ==
    \E k \in 0..Cardinality(Screens) : Backs(nav, k, now).current = "Clock"

----------------------------------------------------------------------------
(* SpecButton: the boot button of the touch169 node is pressed and         *)
(* released as time passes, and InputManager::update() polls it            *)

BOOT_BTN_DEBOUNCE_MS == 50
BOOT_BTN_LONG_PRESS_MS == 2000

\* how long the model runs, in long-press thresholds
MaxHolds == 2

\* handleBootButton with the release branch not testing _bootLongFired
HandleBootButtonRMut(b, t) ==
    IF b.pressed /\ ~b.wasPressed
    THEN [b |-> [b EXCEPT !.pressTime = t, !.wasPressed = TRUE,
                          !.longFired = FALSE],
          calls |-> <<>>]
    ELSE IF b.pressed /\ b.wasPressed /\ ~b.longFired
    THEN IF t - b.pressTime >= BOOT_BTN_LONG_PRESS_MS
         THEN [b |-> [b EXCEPT !.longFired = TRUE],
               calls |-> IF b.longCallback THEN <<"long">> ELSE <<>>]
         ELSE [b |-> b, calls |-> <<>>]
    ELSE IF ~b.pressed /\ b.wasPressed
    THEN LET short == t - b.pressTime >= BOOT_BTN_DEBOUNCE_MS
         IN  [b |-> [b EXCEPT !.shortPending = @ \/ short,
                              !.wasPressed = FALSE,
                              !.longFired = FALSE],
              calls |-> IF short /\ b.shortCallback
                        THEN <<"short">> ELSE <<>>]
    ELSE [b |-> b, calls |-> <<>>]

\* InputManager::handleBootButton() at millis() = t: the InputManager after
\* the call and the callbacks it invoked
HandleBootButtonR(b, t) ==
    IF b.pressed /\ ~b.wasPressed
    THEN [b |-> [b EXCEPT !.pressTime = t, !.wasPressed = TRUE,
                          !.longFired = FALSE],
          calls |-> <<>>]
    ELSE IF b.pressed /\ b.wasPressed /\ ~b.longFired
    THEN IF t - b.pressTime >= BOOT_BTN_LONG_PRESS_MS
         THEN [b |-> [b EXCEPT !.longFired = TRUE],
               calls |-> IF b.longCallback THEN <<"long">> ELSE <<>>]
         ELSE [b |-> b, calls |-> <<>>]
    ELSE IF ~b.pressed /\ b.wasPressed
    THEN LET short == ~b.longFired
                          /\ t - b.pressTime >= BOOT_BTN_DEBOUNCE_MS
         IN  [b |-> [b EXCEPT !.shortPending = @ \/ short,
                              !.wasPressed = FALSE,
                              !.longFired = FALSE],
              calls |-> IF short /\ b.shortCallback
                        THEN <<"short">> ELSE <<>>]
    ELSE [b |-> b, calls |-> <<>>]

\* a callback invoked in the press-to-release cycle under way, as the
\* history records it
ButtonCall(cb, b, t) ==
    [cb |-> cb, held |-> t - b.pressTime, released |-> ~b.pressed,
     longFired |-> b.longFired]

\* InputManager::update() for the boot button; observed lists the callbacks
\* invoked since update() last saw the button go down
HandleBootButton ==
    /\ LET r == HandleBootButtonR(boot, now)
           cycle == IF boot.pressed /\ ~boot.wasPressed
                    THEN <<>>
                    ELSE observed
       IN  /\ boot' = r.b
           /\ observed' = cycle \o [i \in 1..Len(r.calls) |->
                                       ButtonCall(r.calls[i], boot, now)]
    /\ UNCHANGED <<myId, sharedState, stateWatchers, electVars,
                   telemetryEnabled, gatewayMode, telemetryUrl, wifiConnected,
                   httpCode, lastOp, pre, ret, fired, sent, http, repeats,
                   timeVars, replica, delivered, scenario, net, nav>>

\* the button goes down or up: digitalRead(_bootPin) changes
PinChange ==
    /\ boot' = [boot EXCEPT !.pressed = ~@]
    /\ UNCHANGED <<nodeVars, replica, delivered, scenario, net, nav>>

\* the application calls onBootShortPress(cb)
OnBootShortPress ==
    /\ ~boot.shortCallback
    /\ boot' = [boot EXCEPT !.shortCallback = TRUE]
    /\ UNCHANGED <<nodeVars, replica, delivered, scenario, net, nav>>

\* the application calls onBootLongPress(cb)
OnBootLongPress ==
    /\ ~boot.longCallback
    /\ boot' = [boot EXCEPT !.longCallback = TRUE]
    /\ UNCHANGED <<nodeVars, replica, delivered, scenario, net, nav>>

\* bool consumeBootShortPress()
ConsumeBootShortPress ==
    /\ boot.shortPending
    /\ boot' = [boot EXCEPT !.shortPending = FALSE]
    /\ UNCHANGED <<nodeVars, replica, delivered, scenario, net, nav>>

\* millis() moves on by d between two steps; the clock is looked at within
\* a debounce time after every half long-press threshold
Hold(d) ==
    /\ now + d <= MaxHolds * BOOT_BTN_LONG_PRESS_MS
    /\ (now + d) % (BOOT_BTN_LONG_PRESS_MS \div 2) <= BOOT_BTN_DEBOUNCE_MS
    /\ now' = now + d
    /\ UNCHANGED <<myId, sharedState, stateWatchers, electVars,
                   telemetryEnabled, gatewayMode, telemetryUrl, wifiConnected,
                   httpCode, lastOp, pre, ret, fired, sent, http, repeats,
                   observed, peers, lastHeartbeat, lastStateSync,
                   lastTelemetryPush, pairVars>>

NextButton ==
    \/ HandleBootButton
    \/ PinChange
    \/ OnBootShortPress
    \/ OnBootLongPress
    \/ ConsumeBootShortPress
    \/ Hold(BOOT_BTN_DEBOUNCE_MS \div 2)
    \/ Hold(BOOT_BTN_LONG_PRESS_MS \div 2)

SpecButton == InitPeers /\ [][NextButton]_vars

\* the callbacks of one kind invoked in the cycle
CallsOf(cb) == SelectSeq(observed, LAMBDA c : c.cb = cb)

\* C38: in every press-to-release cycle that update() observes, the long
\* press and the short press callbacks are not both invoked; the long press
\* callback is invoked at most once, with the button held for the long
\* press threshold; the short press callback is invoked only at the
\* release of a press that lasted the debounce time and fired no long press.
C38_PressClassification ==
    /\ CallsOf("long") = <<>> \/ CallsOf("short") = <<>>
    /\ Len(CallsOf("long")) <= 1
    /\ \A i \in 1..Len(observed) :
          /\ observed[i].cb = "long" =>
                 /\ ~observed[i].released
                 /\ observed[i].held >= BOOT_BTN_LONG_PRESS_MS
          /\ observed[i].cb = "short" =>
                 /\ observed[i].released
                 /\ observed[i].held >= BOOT_BTN_DEBOUNCE_MS
                 /\ ~observed[i].longFired
    /\ Len(CallsOf("short")) <= 1

\* C38 witness: a press fired the long press callback, the button was
\* released and update() saw the release, with both callbacks registered.
C38_Witness ==
    /\ Len(CallsOf("long")) = 1
    /\ boot.shortCallback /\ boot.longCallback
    /\ ~boot.pressed /\ ~boot.wasPressed

====
